---- MODULE Spec2Model ----
(***************************************************************************)
(* Whiplash: a model of the playlist scan handler                          *)
(* (src/app/api/spotify/artists/route.ts), of the provider helpers it      *)
(* calls (src/app/lib/spotify.ts) and of the client page that consumes the *)
(* snapshot (src/unnamed/part_000).                                        *)
(*                                                                         *)
(* Two state machines share the module.  SpecScan runs one invocation of   *)
(* the scan handler GET against provider responses drawn from a bounded    *)
(* catalogue.  SpecClient runs the page component Home: scans, progress    *)
(* export and import, and the review deck.  Each specification leaves the  *)
(* variables of the other machine at their initial value.  SpecRank runs   *)
(* the ranking part of GET on tables larger than a ranking, and            *)
(* SpecTwoScans runs GET twice against the same provider answers.          *)
(***************************************************************************)
EXTENDS Integers, Sequences, FiniteSets, TLC

(***************************************************************************)
(* Bounds of the model.                                                    *)
(***************************************************************************)
\* the provider returns at most this many playlists
MaxPlaylists == 2
\* a playlist holds at most this many items
MaxItems == 2
\* the ranking is built from at most this many artists
MaxRanked == 6
\* fetchArtistsByIds is asked for at most this many artists
MaxIds == 101
\* the provider has at most this many pages of one listing
MaxPages == 3
\* a scan whose input is reordered afterwards reads at most this many items
MaxShuffled == 3
\* the callback route sends at most this many codes to the token endpoint
MaxExchanges == 2

\* JavaScript null / undefined / "" (every test on it in the code is !x or ??)
Null == "null"

(***************************************************************************)
(* The provider's catalogue: the artist credits and the playlist items     *)
(* fetchAllPlaylistTracks may deliver.                                     *)
(***************************************************************************)
cA1 == [id |-> "A1", name |-> "Abba"]
cA2 == [id |-> "A2", name |-> "beck"]
\* a credit without an identifier, and one without a name
cNoId == [id |-> Null, name |-> "Garage Band"]
cNoName == [id |-> "A3", name |-> Null]

ArtistIds == {"A1", "A2", "A3"}
TrackIds == {"T1", "T2", "T3"}

\* A playlist item.  it.track is an optional payload: <<>> when it is null,
\* <<payload>> otherwise.
\* it.track is null
NoTrack == [track |-> <<>>]
\* a podcast episode: a payload whose type is not "track"
Episode ==
  [track |-> << [type |-> "episode", id |-> "T1", name |-> "Show", artists |-> <<cA1>>] >>]
\* a local file: type "track", no identifier
LocalFile ==
  [track |-> << [type |-> "track", id |-> Null, name |-> "Demo", artists |-> <<cA2>>] >>]
Track(id, name, artists) ==
  [track |-> << [type |-> "track", id |-> id, name |-> name, artists |-> artists] >>]

Items ==
  { NoTrack, Episode, LocalFile,
    Track("T1", "Alpha", <<cA1>>),
    Track("T2", "bravo", <<cA1, cA2>>),
    \* the same artist credited twice on one track
    Track("T3", "Charlie", <<cA2, cA2>>),
    \* the identifier T1 delivered again with another artist list
    Track("T1", "Alpha", <<cA2>>),
    \* a track whose credits all lack an identifier or a name
    Track("T2", Null, <<cNoId, cNoName>>) }

\* the playlist at position i of the provider's list: its id, or no id
PlaylistId(i) == ToString(i)
Playlist(i, hasId) == [id |-> IF hasId THEN PlaylistId(i) ELSE Null]

VARIABLES
  \* ---- the scan handler (route.ts GET) ----
  cookie,               \* the sp_access_token cookie, or Null
  pc,                   \* the handler's position
  playlists,            \* const playlists
  plIndex,              \* number of playlists the for loop has taken
  itemCount,            \* items of the current playlist already iterated
  uniqueTrackIds,       \* const uniqueTrackIds = new Set()
  artistMap,            \* const artistMap = new Map(), in insertion order
  trackPlaylistMap,     \* const trackPlaylistMap = new Map(), in insertion order
  artistIdsInPlaylist,  \* per-playlist Set
  trackIdsInPlaylist,   \* per-playlist Set
  response,             \* what GET returned: Null, a 401, a snapshot, or a throw
  calls,                \* the provider calls made so far, in order
  failed,               \* some provider fetch returned a non-success status
  seen,                 \* history: what the provider delivered
  run,                  \* 0: a single request; 1, 2: the first and second of two
  feed,                 \* history: the provider's answers to the first request
  first,                \* history: what GET returned to the first request
  \* ---- the page component Home (part_000) ----
  data,                 \* useState<ApiResponse | null>
  loadingScan,          \* useState(false)
  error,                \* useState<string | null>
  mode,                 \* "start" | "insights" | "deck"
  insightPage,          \* 0..4
  decisions,            \* artistId -> seen?
  deckIndex,            \* position in the alphabetical deck
  localStorage,         \* the three entries the page writes
  last,                 \* history: how the last operation ended
  before,               \* history: the page's state when that operation began
  download,             \* the progress file the browser has just saved
  inFlight,             \* the requests to /api/spotify/artists not yet settled
  \* ---- the provider helpers (lib/spotify.ts), one call of one helper ----
  helper,               \* the helper that was called
  helperPc,             \* "loop", "returned" or "thrown"
  batchIds,             \* fetchArtistsByIds: the parameter ids
  batchAt,              \* fetchArtistsByIds: let i
  chain,                \* the provider's pages: what each url answers
  url,                  \* fetchAllPlaylists / fetchAllPlaylistTracks: let url
  out,                  \* const out
  requests,             \* history: the requests sent, with their answers
  result,               \* what the helper returned, if it returned
  \* ---- the login and callback routes (api/auth) and the browser ----
  jar,                  \* the browser's cookies for the site
  authRequest,          \* history: the last request to the callback route
  authResponse,         \* what the route answered last
  exchanges             \* history: the codes sent to the token endpoint

scanVars ==
  << cookie, pc, playlists, plIndex, itemCount, uniqueTrackIds, artistMap,
     trackPlaylistMap, artistIdsInPlaylist, trackIdsInPlaylist, response,
     calls, failed, seen, run, feed, first >>

clientVars ==
  << data, loadingScan, error, mode, insightPage, decisions, deckIndex,
     localStorage, last, before, download, inFlight >>

libVars == << helper, helperPc, batchIds, batchAt, chain, url, out, requests, result >>

authVars == << jar, authRequest, authResponse, exchanges >>

vars == << scanVars, clientVars, libVars, authVars >>

\* nothing has reached the auth routes
NoAuth ==
  /\ jar = [spotify_auth_state |-> <<>>, sp_access_token |-> <<>>, sp_refresh_token |-> <<>>]
  /\ authRequest = <<>>
  /\ authResponse = <<>>
  /\ exchanges = <<>>

\* no helper is running
NoHelper ==
  /\ helper = "none"
  /\ helperPc = "idle"
  /\ batchIds = <<>>
  /\ batchAt = 0
  /\ chain = <<>>
  /\ url = 0
  /\ out = <<>>
  /\ requests = <<>>
  /\ result = <<>>

(***************************************************************************)
(* JavaScript Map, kept as a sequence of entries in insertion order.       *)
(***************************************************************************)
MapHas(m, k) == \E i \in 1..Len(m) : m[i].key = k
MapIdx(m, k) == CHOOSE i \in 1..Len(m) : m[i].key = k
MapGet(m, k) == m[MapIdx(m, k)]
MapKeys(m) == { m[i].key : i \in 1..Len(m) }
\* Array.from(m.keys())
\* MapKeySeq stopping after the first key
MapKeySeqFirst(m) == [i \in 1..(IF Len(m) > 0 THEN 1 ELSE 0) |-> m[i].key]
MapKeySeq(m) == [i \in 1..Len(m) |-> m[i].key]

(***************************************************************************)
(* The item loop of GET, route.ts lines 64-114.                            *)
(***************************************************************************)
\* Rejected without the test of the type tag
RejectedIgnoringType(it) ==
  \/ it.track = <<>>
  \/ it.track[1].id = Null

\* if (!track || track.type !== "track") continue;  if (!trackId) continue;
Rejected(it) ==
  \/ it.track = <<>>
  \/ it.track[1].type # "track"
  \/ it.track[1].id = Null

\* if (!artistId || !artistName) continue;
SkipCredit(a) == a.id = Null \/ a.name = Null

\* trackPlaylistMap.set(trackId, {...}) when the track is not in the map yet
AddTrack(tpm, track) ==
  IF MapHas(tpm, track.id) THEN tpm
  ELSE LET mainArtist == IF track.artists = <<>> THEN <<>> ELSE <<track.artists[1]>>
       IN Append(tpm,
            [key |-> track.id,
             name |-> IF track.name = Null THEN "Unknown track" ELSE track.name,
             mainArtistId |-> IF mainArtist = <<>> THEN Null ELSE mainArtist[1].id,
             mainArtistName |->
               IF mainArtist = <<>> \/ mainArtist[1].name = Null
               THEN "Unknown artist" ELSE mainArtist[1].name,
             mainArtistImageUrl |-> Null,
             playlistCount |-> 0])

\* the loop over track.artists of a new unique track: songCount += 1, or a new
\* entry with songCount 1
RECURSIVE CountSongs(_, _)
CountSongs(artists, am) ==
  IF artists = <<>> THEN am
  ELSE LET a == Head(artists) IN
       IF SkipCredit(a) THEN CountSongs(Tail(artists), am)
       ELSE IF MapHas(am, a.id)
            THEN CountSongs(Tail(artists),
                            [am EXCEPT ![MapIdx(am, a.id)].songCount = @ + 1])
            ELSE CountSongs(Tail(artists),
                            Append(am, [key |-> a.id, name |-> a.name, songCount |-> 1,
                                        playlistCount |-> 0, imageUrl |-> Null]))

\* MarkPresence with the presence counted at once, at every credit, instead of
\* being deferred to the end of the playlist
RECURSIVE MarkPresenceEager(_, _, _)
MarkPresenceEager(artists, am, inPl) ==
  IF artists = <<>> THEN [artistMap |-> am, artistIdsInPlaylist |-> inPl]
  ELSE LET a == Head(artists) IN
       IF SkipCredit(a) THEN MarkPresenceEager(Tail(artists), am, inPl)
       ELSE MarkPresenceEager(Tail(artists),
              IF MapHas(am, a.id)
              THEN [am EXCEPT ![MapIdx(am, a.id)].playlistCount = @ + 1]
              ELSE Append(am, [key |-> a.id, name |-> a.name, songCount |-> 0,
                               playlistCount |-> 1, imageUrl |-> Null]),
              inPl)

\* the playlist-presence loop over track.artists: the artist joins
\* artistIdsInPlaylist, and gets an entry with songCount 0 if it has none
RECURSIVE MarkPresence(_, _, _)
MarkPresence(artists, am, inPl) ==
  IF artists = <<>> THEN [artistMap |-> am, artistIdsInPlaylist |-> inPl]
  ELSE LET a == Head(artists) IN
       IF SkipCredit(a) THEN MarkPresence(Tail(artists), am, inPl)
       ELSE MarkPresence(Tail(artists),
              IF MapHas(am, a.id) THEN am
              ELSE Append(am, [key |-> a.id, name |-> a.name, songCount |-> 0,
                               playlistCount |-> 0, imageUrl |-> Null]),
              inPl \cup {a.id})

\* ProcessItem with songCount counted at every occurrence of a track instead
\* of at its first only
ProcessItemCountingRepeats(it, st) ==
  IF Rejected(it) THEN st
  ELSE LET track == it.track[1]
           counted == CountSongs(track.artists, st.artistMap)
           marked == MarkPresence(track.artists, counted, st.artistIdsInPlaylist)
       IN [trackIdsInPlaylist |-> st.trackIdsInPlaylist \cup {track.id},
           trackPlaylistMap |-> AddTrack(st.trackPlaylistMap, track),
           uniqueTrackIds |-> st.uniqueTrackIds \cup {track.id},
           artistMap |-> marked.artistMap,
           artistIdsInPlaylist |-> marked.artistIdsInPlaylist]

\* ProcessItem with the playlist-presence loop run for a new unique track only
ProcessItemPresenceOfNewTracks(it, st) ==
  IF Rejected(it) THEN st
  ELSE LET track == it.track[1]
           isNewUniqueTrack == track.id \notin st.uniqueTrackIds
           marked == IF isNewUniqueTrack
                     THEN MarkPresence(track.artists, CountSongs(track.artists, st.artistMap),
                                       st.artistIdsInPlaylist)
                     ELSE [artistMap |-> st.artistMap,
                           artistIdsInPlaylist |-> st.artistIdsInPlaylist]
       IN [trackIdsInPlaylist |-> st.trackIdsInPlaylist \cup {track.id},
           trackPlaylistMap |-> AddTrack(st.trackPlaylistMap, track),
           uniqueTrackIds |-> st.uniqueTrackIds \cup {track.id},
           artistMap |-> marked.artistMap,
           artistIdsInPlaylist |-> marked.artistIdsInPlaylist]

\* one iteration of for (const it of items), on the handler's tables st
ProcessItem(it, st) ==
  IF Rejected(it) THEN st
  ELSE LET track == it.track[1]
           isNewUniqueTrack == track.id \notin st.uniqueTrackIds
           counted == IF isNewUniqueTrack THEN CountSongs(track.artists, st.artistMap)
                      ELSE st.artistMap
           marked == MarkPresence(track.artists, counted, st.artistIdsInPlaylist)
       IN [trackIdsInPlaylist |-> st.trackIdsInPlaylist \cup {track.id},
           trackPlaylistMap |-> AddTrack(st.trackPlaylistMap, track),
           uniqueTrackIds |-> st.uniqueTrackIds \cup {track.id},
           artistMap |-> marked.artistMap,
           artistIdsInPlaylist |-> marked.artistIdsInPlaylist]

\* for (const id of idsInPlaylist) { rec = map.get(id); if (rec) rec.playlistCount += 1 }
\* (route.ts lines 116-119 for artists, 121-124 for tracks)
CountPresence(m, idsInPlaylist) ==
  [i \in 1..Len(m) |->
     IF m[i].key \in idsInPlaylist
     THEN [m[i] EXCEPT !.playlistCount = @ + 1] ELSE m[i]]
\* the end-of-playlist increment run over the whole map instead of over the
\* per-playlist set
CountArtistPresenceAll(am, ids) == CountPresence(am, MapKeys(am))
CountTrackPresenceAll(tpm, ids) == CountPresence(tpm, MapKeys(tpm))
\* the end-of-playlist increment of the artists left out
CountArtistPresenceNever(am, ids) == am
CountArtistPresence(am, ids) == CountPresence(am, ids)
CountTrackPresence(tpm, ids) == CountPresence(tpm, ids)

(***************************************************************************)
(* What the provider delivered, recorded item by item as it is delivered:  *)
(* which track identifiers occurred in which playlist, which artists were  *)
(* credited in which playlist, and which artists on which track.  Only     *)
(* items of type "track" that carry an identifier are recorded, and only   *)
(* credits that carry both an identifier and a name.                       *)
(***************************************************************************)
NothingSeen ==
  [trackIn |-> {}, artistIn |-> {}, credit |-> {}, other |-> FALSE, lastItem |-> "none",
   meta |-> [a \in {} |-> "absent"]]

\* the artists that track credits with an id and a name
Credits(track) ==
  { track.artists[j].id : j \in { i \in 1..Len(track.artists) :
      track.artists[i].id # Null /\ track.artists[i].name # Null } }

\* h after item it of the playlist at position p was delivered:
\*   trackIn   <<p, t>>: track t occurred in playlist p
\*   artistIn  <<p, a>>: artist a was credited in playlist p
\*   credit    <<t, a>>: artist a was credited on track t
\*   other     an item that is no identified track was delivered
\*   lastItem  what the item of the current playlist delivered last was:
\*             "track" for an identified track, "other" for any other item
\*   meta      what fetchArtistsByIds returned for each artist asked for: the
\*             artist with an image, without one, or not at all
Record(h, p, it) ==
  IF it.track # <<>> /\ it.track[1].type = "track" /\ it.track[1].id # Null
  THEN LET t == it.track[1] IN
       [h EXCEPT
          !.trackIn = @ \cup {<<p, t.id>>},
          !.artistIn = @ \cup { <<p, a>> : a \in Credits(t) },
          !.credit = @ \cup { <<t.id, a>> : a \in Credits(t) },
          !.lastItem = "track"]
  ELSE [h EXCEPT !.other = TRUE, !.lastItem = "other"]

(***************************************************************************)
(* The scan handler GET, route.ts lines 26-232.                            *)
(***************************************************************************)
Call(fn, arg) == [fn |-> fn, arg |-> arg]

NoResponse == [status |-> 0, body |-> [error |-> Null]]
NotAuthenticated == [status |-> 401, body |-> [error |-> "not_authenticated"]]
\* an exception leaves GET: the framework answers 500 without a body of GET's
Thrown == [status |-> 500, body |-> [error |-> "thrown"]]

\* TokenMissing testing for undefined only: the cookie getter yields null
TokenUndefined(token) == token = "undefined"
\* if (!token) return 401
TokenMissing(token) == token = Null

\* AfterFetch without the test of r.ok
AfterFetchUnchecked(ok, next) == next
\* spotifyFetch / fetchArtistsByIds: if (!r.ok) throw; the handler goes on at
\* next only when the fetch succeeded
AfterFetch(ok, next) == IF ok THEN next ELSE "thrown"

\* imageByArtistId.get(id) ?? null, where meta[id] tells whether the provider
\* returned the artist with an image, without one, or not at all
ImageUrl(meta, id) ==
  IF id \in DOMAIN meta /\ meta[id] = "image" THEN "img:" \o id ELSE Null

\* lines 143-152: fill rec.imageUrl and, when mainArtistId is set,
\* rec.mainArtistImageUrl
FillArtistImages(am, meta) ==
  [i \in 1..Len(am) |-> [am[i] EXCEPT !.imageUrl = ImageUrl(meta, am[i].key)]]
\* FillTrackImages leaving the tracks as they are
FillTrackImagesNever(tpm, meta) == tpm
FillTrackImages(tpm, meta) ==
  [i \in 1..Len(tpm) |->
     IF tpm[i].mainArtistId # Null
     THEN [tpm[i] EXCEPT !.mainArtistImageUrl = ImageUrl(meta, tpm[i].mainArtistId)]
     ELSE tpm[i]]

TotalPlaylists(pls) == Len(pls)

\* a.localeCompare(b) on the names of the model: the rank of the name in the
\* collation order, in which letters compare before case does
LocaleRank(name) ==
  CASE name = "Abba" -> 1
    [] name = "Alpha" -> 2
    [] name = "beck" -> 3
    [] name = "bravo" -> 4
    [] name = "Charlie" -> 5
    [] name = "Cher" -> 6
    [] name = "Unknown track" -> 7

\* (a, b) => b.count - a.count || a.name.localeCompare(b.name) is negative
Precedes(a, b) ==
  a.count > b.count \/ (a.count = b.count /\ LocaleRank(a.name) < LocaleRank(b.name))

\* Array.prototype.sort with that comparison (stable); the elements are
\* [count, name, row]
RECURSIVE InsertRanked(_, _)
InsertRanked(a, sorted) ==
  IF sorted = <<>> THEN <<a>>
  ELSE IF Precedes(a, Head(sorted))
       THEN <<a>> \o sorted
       ELSE <<Head(sorted)>> \o InsertRanked(a, Tail(sorted))
RECURSIVE SortRanked(_)
SortRanked(arr) ==
  IF arr = <<>> THEN <<>>
  ELSE InsertRanked(arr[Len(arr)], SortRanked(SubSeq(arr, 1, Len(arr) - 1)))
Rows(ranked) == [i \in 1..Len(ranked) |-> ranked[i].row]

\* the 5 of .slice(0, 5)
TopCount == 5
\* .slice(0, 5) without its end
SliceAll(arr) == arr
\* .slice(0, 5)
Slice(arr) == SubSeq(arr, 1, IF Len(arr) < TopCount THEN Len(arr) ELSE TopCount)

\* a percentage, as the fraction num / den (den > 0)
SameNumber(a, b) == a.num * b.den = b.num * a.den
\* Math.round(x * 10) / 10 for x >= 0: the nearest tenth, a half rounding up
Round1(x) == [num |-> (20 * x.num + x.den) \div (2 * x.den), den |-> 10]
\* pct rounding its result to one decimal
pctRounded(x, denom) ==
  IF denom > 0 THEN Round1([num |-> x * 100, den |-> denom]) ELSE [num |-> 0, den |-> 1]
\* pct without its test of denom
pctUnguarded(x, denom) == [num |-> x * 100, den |-> denom]
\* const pct = (x, denom) => (denom > 0 ? (x / denom) * 100 : 0)
pct(x, denom) ==
  IF denom > 0 THEN [num |-> x * 100, den |-> denom] ELSE [num |-> 0, den |-> 1]

\* lines 155-161: const artists = Array.from(artistMap.entries()).map(...)
ArtistAggs(am) ==
  [i \in 1..Len(am) |->
     [artistId |-> am[i].key, artistName |-> am[i].name,
      songCount |-> am[i].songCount, playlistCount |-> am[i].playlistCount,
      imageUrl |-> am[i].imageUrl]]

\* .sort((a, b) => b.songCount - a.songCount || a.artistName.localeCompare(...))
SortBySongs(artists) ==
  Rows(SortRanked([i \in 1..Len(artists) |->
         [count |-> artists[i].songCount, name |-> artists[i].artistName,
          row |-> artists[i]]]))
\* .sort((a, b) => b.playlistCount - a.playlistCount || a.artistName.localeCompare(...))
SortByPlaylists(artists) ==
  Rows(SortRanked([i \in 1..Len(artists) |->
         [count |-> artists[i].playlistCount, name |-> artists[i].artistName,
          row |-> artists[i]]]))
\* .sort((a, b) => b.playlistCount - a.playlistCount || a.trackName.localeCompare(...))
SortTracks(tracks) ==
  Rows(SortRanked([i \in 1..Len(tracks) |->
         [count |-> tracks[i].playlistCount, name |-> tracks[i].trackName,
          row |-> tracks[i]]]))

\* lines 168-177
TopArtistsBySongs(artists, totalUniqueTracks) ==
  LET top == Slice(SortBySongs(artists)) IN
  [i \in 1..Len(top) |->
     [artistId |-> top[i].artistId, artistName |-> top[i].artistName,
      imageUrl |-> top[i].imageUrl, value |-> top[i].songCount,
      percent |-> pct(top[i].songCount, totalUniqueTracks)]]
\* lines 179-188
TopArtistsByPlaylists(artists, totalPlaylists) ==
  LET top == Slice(SortByPlaylists(artists)) IN
  [i \in 1..Len(top) |->
     [artistId |-> top[i].artistId, artistName |-> top[i].artistName,
      imageUrl |-> top[i].imageUrl, value |-> top[i].playlistCount,
      percent |-> pct(top[i].playlistCount, totalPlaylists)]]
\* lines 190-200 and 221-224
TopTracksByPlaylists(tpm, totalPlaylists) ==
  LET top == Slice(SortTracks(
                [i \in 1..Len(tpm) |->
                   [trackId |-> tpm[i].key, trackName |-> tpm[i].name,
                    mainArtistId |-> tpm[i].mainArtistId,
                    mainArtistName |-> tpm[i].mainArtistName,
                    mainArtistImageUrl |-> tpm[i].mainArtistImageUrl,
                    playlistCount |-> tpm[i].playlistCount]]))
  IN [i \in 1..Len(top) |->
        [trackId |-> top[i].trackId, trackName |-> top[i].trackName,
         mainArtistId |-> top[i].mainArtistId,
         mainArtistName |-> top[i].mainArtistName,
         mainArtistImageUrl |-> top[i].mainArtistImageUrl,
         playlistCount |-> top[i].playlistCount,
         percent |-> pct(top[i].playlistCount, totalPlaylists)]]
\* lines 202-210
ArtistTable(artists, totalUniqueTracks, totalPlaylists) ==
  [i \in 1..Len(artists) |->
     [artistId |-> artists[i].artistId, artistName |-> artists[i].artistName,
      imageUrl |-> artists[i].imageUrl,
      songCount |-> artists[i].songCount,
      songPercent |-> pct(artists[i].songCount, totalUniqueTracks),
      playlistCount |-> artists[i].playlistCount,
      playlistPercent |-> pct(artists[i].playlistCount, totalPlaylists)]]

\* lines 155-231: the snapshot
Snapshot(pls, unique, am, tpm) ==
  LET totalPlaylists == TotalPlaylists(pls)
      totalUniqueTracks == Cardinality(unique)
      artists == SortBySongs(ArtistAggs(am))
  IN
  [status |-> 200,
   body |->
     [totals |-> [totalPlaylists |-> totalPlaylists,
                  totalArtists |-> Len(artists),
                  totalUniqueTracks |-> totalUniqueTracks],
      topArtistsBySongs |-> TopArtistsBySongs(artists, totalUniqueTracks),
      topArtistsByPlaylists |-> TopArtistsByPlaylists(artists, totalPlaylists),
      topTracksByPlaylists |-> TopTracksByPlaylists(tpm, totalPlaylists),
      artistTable |-> ArtistTable(artists, totalUniqueTracks, totalPlaylists),
      artists |-> [i \in 1..Len(artists) |->
                     [artistId |-> artists[i].artistId,
                      artistName |-> artists[i].artistName,
                      imageUrl |-> artists[i].imageUrl,
                      trackCount |-> artists[i].songCount]]]]

(***************************************************************************)
(* The provider.  A single request (run 0) may be answered with anything   *)
(* of the catalogue.  Of two requests in a row, the first (run 1) is       *)
(* answered from a part of the catalogue and its answers are kept in feed; *)
(* the second (run 2) gets the same answers again.  A first request whose  *)
(* answers are reordered before the second is run 3.                       *)
(***************************************************************************)
NoFeed == [playlists |-> <<>>, items |-> <<>>, meta |-> [a \in {} |-> "absent"]]
ReplayItems == { Track("T1", "Alpha", <<cA1>>), Track("T2", "bravo", <<cA1, cA2>>) }
ShuffleItems ==
  { Track("T1", "Alpha", <<cA1>>), Track("T2", "bravo", <<cA1, cA2>>),
    Track("T3", "Charlie", <<cA2, cA2>>), Track("T1", "Alpha", <<cA2>>) }
\* the answers of the first request are kept
Recording == run \in {1, 3}
RECURSIVE ItemsIn(_)
ItemsIn(lists) == IF lists = <<>> THEN 0 ELSE Len(Head(lists)) + ItemsIn(Tail(lists))

\* what fetchAllPlaylists may return
PlaylistsOffered ==
  IF run = 2 THEN { feed.playlists }
  ELSE UNION { { [i \in 1..n |-> Playlist(i, i \in withId)] : withId \in SUBSET (1..n) } :
               n \in 0..MaxPlaylists }
\* the item the loop over items may come to next; none when items is exhausted
ItemsOffered ==
  IF run = 0 THEN Items
  ELSE IF run = 1 THEN ReplayItems
  ELSE IF run = 3 THEN (IF ItemsIn(feed.items) < MaxShuffled THEN ShuffleItems ELSE {})
  ELSE IF itemCount < Len(feed.items[plIndex + 1])
       THEN { feed.items[plIndex + 1][itemCount + 1] } ELSE {}
\* whether the loop over items may be at its end
ItemsMayEnd == run = 2 => itemCount = Len(feed.items[plIndex + 1])
\* what fetchArtistsByIds may return for the artists ids
MetaOffered(ids) ==
  IF run = 2 THEN { feed.meta }
  ELSE IF run = 3 THEN [ids -> {"image"}]
  ELSE [ids -> {"image", "noImage", "absent"}]
\* a fetch may fail, but not when it is to answer as it did before
MayFail == run # 2

\* const uniqueTrackIds = new Set(), const artistMap = new Map(), const
\* trackPlaylistMap = new Map(): created by every call of GET
TablesKept(old) == old
NewTables(old) == [uniqueTrackIds |-> {}, artistMap |-> <<>>, trackPlaylistMap |-> <<>>]

\* the handler's locals before its first statement
ScanFresh ==
  /\ pc = "start"
  /\ playlists = <<>>
  /\ plIndex = 0
  /\ itemCount = 0
  /\ uniqueTrackIds = {}
  /\ artistMap = <<>>
  /\ trackPlaylistMap = <<>>
  /\ artistIdsInPlaylist = {}
  /\ trackIdsInPlaylist = {}
  /\ response = NoResponse
  /\ calls = <<>>
  /\ failed = FALSE
  /\ seen = NothingSeen
  /\ feed = NoFeed
  /\ first = NoResponse

\* const token = await getAccessToken(); if (!token) return 401
GetAccessToken ==
  /\ pc = "start"
  /\ calls' = Append(calls, Call("getAccessToken", <<>>))
  /\ IF TokenMissing(cookie)
     THEN pc' = "done" /\ response' = NotAuthenticated
     ELSE pc' = "fetchPlaylists" /\ UNCHANGED response
  /\ UNCHANGED << cookie, playlists, plIndex, itemCount, uniqueTrackIds, artistMap,
                  trackPlaylistMap, artistIdsInPlaylist, trackIdsInPlaylist,
                  failed, seen, run, feed, first >>
  /\ UNCHANGED << clientVars, libVars, authVars >>

\* const playlists = await fetchAllPlaylists(token)
FetchAllPlaylists ==
  /\ pc = "fetchPlaylists"
  /\ calls' = Append(calls, Call("fetchAllPlaylists", <<>>))
  /\ \/ \E pls \in PlaylistsOffered :
          /\ playlists' = pls
          /\ feed' = IF Recording
                     THEN [feed EXCEPT !.playlists = pls,
                                       !.items = [i \in 1..Len(pls) |-> <<>>]]
                     ELSE feed
          /\ pc' = AfterFetch(TRUE, "loop")
          /\ UNCHANGED << failed, response >>
     \/ /\ MayFail
        /\ failed' = TRUE
        /\ pc' = AfterFetch(FALSE, "loop")
        /\ response' = IF pc' = "thrown" THEN Thrown ELSE response
        /\ UNCHANGED << playlists, feed >>
  /\ UNCHANGED << cookie, plIndex, itemCount, uniqueTrackIds, artistMap,
                  trackPlaylistMap, artistIdsInPlaylist, trackIdsInPlaylist, seen,
                  run, first >>
  /\ UNCHANGED << clientVars, libVars, authVars >>

\* for (const pl of playlists): if (!playlistId) continue
SkipPlaylist ==
  /\ pc = "loop"
  /\ plIndex < Len(playlists)
  /\ playlists[plIndex + 1].id = Null
  /\ plIndex' = plIndex + 1
  /\ UNCHANGED << cookie, pc, playlists, itemCount, uniqueTrackIds, artistMap,
                  trackPlaylistMap, artistIdsInPlaylist, trackIdsInPlaylist,
                  response, calls, failed, seen, run, feed, first >>
  /\ UNCHANGED << clientVars, libVars, authVars >>

\* const items = await fetchAllPlaylistTracks(token, playlistId), then the two
\* per-playlist sets are created empty
FetchAllPlaylistTracks ==
  /\ pc = "loop"
  /\ plIndex < Len(playlists)
  /\ playlists[plIndex + 1].id # Null
  /\ calls' = Append(calls, Call("fetchAllPlaylistTracks", <<playlists[plIndex + 1].id>>))
  /\ \/ /\ pc' = AfterFetch(TRUE, "items")
        /\ UNCHANGED << failed, response >>
     \/ /\ MayFail
        /\ failed' = TRUE
        /\ pc' = AfterFetch(FALSE, "items")
        /\ response' = IF pc' = "thrown" THEN Thrown ELSE response
  /\ itemCount' = 0
  /\ artistIdsInPlaylist' = {}
  /\ trackIdsInPlaylist' = {}
  /\ UNCHANGED << cookie, playlists, plIndex, uniqueTrackIds, artistMap,
                  trackPlaylistMap, seen, run, feed, first >>
  /\ UNCHANGED << clientVars, libVars, authVars >>

\* one iteration of for (const it of items); the item is drawn when the loop
\* reaches it (the loop never looks ahead in items)
NextItem ==
  /\ pc = "items"
  /\ itemCount < MaxItems
  /\ \E it \in ItemsOffered :
       LET st == ProcessItem(it,
                   [trackIdsInPlaylist |-> trackIdsInPlaylist,
                    trackPlaylistMap |-> trackPlaylistMap,
                    uniqueTrackIds |-> uniqueTrackIds,
                    artistMap |-> artistMap,
                    artistIdsInPlaylist |-> artistIdsInPlaylist])
       IN /\ trackIdsInPlaylist' = st.trackIdsInPlaylist
          /\ trackPlaylistMap' = st.trackPlaylistMap
          /\ uniqueTrackIds' = st.uniqueTrackIds
          /\ artistMap' = st.artistMap
          /\ artistIdsInPlaylist' = st.artistIdsInPlaylist
          /\ seen' = Record(seen, plIndex + 1, it)
          /\ feed' = IF Recording THEN [feed EXCEPT !.items[plIndex + 1] = Append(@, it)]
                     ELSE feed
  /\ itemCount' = itemCount + 1
  /\ UNCHANGED << cookie, pc, playlists, plIndex, response, calls, failed, run, first >>
  /\ UNCHANGED << clientVars, libVars, authVars >>

\* items is exhausted: the end-of-playlist increments, lines 116-124
EndOfPlaylist ==
  /\ pc = "items"
  /\ ItemsMayEnd
  /\ artistMap' = CountArtistPresence(artistMap, artistIdsInPlaylist)
  /\ trackPlaylistMap' = CountTrackPresence(trackPlaylistMap, trackIdsInPlaylist)
  /\ plIndex' = plIndex + 1
  /\ pc' = "loop"
  /\ seen' = [seen EXCEPT !.lastItem = "none"]
  /\ UNCHANGED << cookie, playlists, itemCount, uniqueTrackIds, artistIdsInPlaylist,
                  trackIdsInPlaylist, response, calls, failed, run, feed, first >>
  /\ UNCHANGED << clientVars, libVars, authVars >>

\* allArtistIds.length === 0: no enrichment, the snapshot is returned
RespondWithoutArtists ==
  /\ pc = "loop"
  /\ plIndex = Len(playlists)
  /\ Len(artistMap) = 0
  /\ response' = Snapshot(playlists, uniqueTrackIds, artistMap, trackPlaylistMap)
  /\ pc' = "done"
  /\ UNCHANGED << cookie, playlists, plIndex, itemCount, uniqueTrackIds, artistMap,
                  trackPlaylistMap, artistIdsInPlaylist, trackIdsInPlaylist,
                  calls, failed, seen, run, feed, first >>
  /\ UNCHANGED << clientVars, libVars, authVars >>

\* const artistObjs = await fetchArtistsByIds(token, allArtistIds); the images
\* are filled in and the snapshot is returned
EnrichAndRespond ==
  /\ pc = "loop"
  /\ plIndex = Len(playlists)
  /\ Len(artistMap) > 0
  /\ calls' = Append(calls, Call("fetchArtistsByIds", MapKeySeq(artistMap)))
  /\ \/ \E meta \in MetaOffered(MapKeys(artistMap)) :
          /\ pc' = IF AfterFetch(TRUE, "respond") = "respond" THEN "done" ELSE "thrown"
          /\ artistMap' = FillArtistImages(artistMap, meta)
          /\ trackPlaylistMap' = FillTrackImages(trackPlaylistMap, meta)
          /\ response' = Snapshot(playlists, uniqueTrackIds, artistMap', trackPlaylistMap')
          /\ seen' = [seen EXCEPT !.meta = meta]
          /\ feed' = IF Recording THEN [feed EXCEPT !.meta = meta] ELSE feed
          /\ UNCHANGED failed
     \/ /\ MayFail
        /\ failed' = TRUE
        /\ pc' = IF AfterFetch(FALSE, "respond") = "respond" THEN "done" ELSE "thrown"
        /\ response' = IF pc' = "thrown" THEN Thrown
                       ELSE Snapshot(playlists, uniqueTrackIds, artistMap, trackPlaylistMap)
        /\ UNCHANGED << artistMap, trackPlaylistMap, seen, feed >>
  /\ UNCHANGED << cookie, playlists, plIndex, itemCount, uniqueTrackIds,
                  artistIdsInPlaylist, trackIdsInPlaylist, run, first >>
  /\ UNCHANGED << clientVars, libVars, authVars >>

\* the first request is answered: the page asks again, GET is entered anew
ScanAgain ==
  /\ run = 1
  /\ pc = "done"
  /\ response.status = 200
  /\ run' = 2
  /\ first' = response
  /\ pc' = "start"
  /\ playlists' = <<>>
  /\ plIndex' = 0
  /\ itemCount' = 0
  /\ LET tables == NewTables([uniqueTrackIds |-> uniqueTrackIds, artistMap |-> artistMap,
                              trackPlaylistMap |-> trackPlaylistMap])
     IN /\ uniqueTrackIds' = tables.uniqueTrackIds
        /\ artistMap' = tables.artistMap
        /\ trackPlaylistMap' = tables.trackPlaylistMap
  /\ artistIdsInPlaylist' = {}
  /\ trackIdsInPlaylist' = {}
  /\ response' = NoResponse
  /\ calls' = <<>>
  /\ failed' = FALSE
  /\ seen' = NothingSeen
  /\ UNCHANGED << cookie, feed >>
  /\ UNCHANGED << clientVars, libVars, authVars >>

\* the listing with the playlists k and k + 1 exchanged, or with the items j
\* and j + 1 of playlist k exchanged
Swap(list, k) == [list EXCEPT ![k] = list[k + 1], ![k + 1] = list[k]]
Exchanges(f) ==
  { [f EXCEPT !.playlists = Swap(f.playlists, k), !.items = Swap(f.items, k)] :
      k \in 1..(Len(f.playlists) - 1) }
  \cup
  UNION { { [f EXCEPT !.items[k] = Swap(f.items[k], j)] : j \in 1..(Len(f.items[k]) - 1) } :
          k \in 1..Len(f.items) }

\* the first request is answered: the page asks again, and the provider lists
\* what it listed before with two neighbours exchanged
ScanReordered ==
  /\ run = 3
  /\ pc = "done"
  /\ response.status = 200
  /\ run' = 2
  /\ first' = response
  /\ \E f \in Exchanges(feed) : feed' = f
  /\ pc' = "start"
  /\ playlists' = <<>>
  /\ plIndex' = 0
  /\ itemCount' = 0
  /\ LET tables == NewTables([uniqueTrackIds |-> uniqueTrackIds, artistMap |-> artistMap,
                              trackPlaylistMap |-> trackPlaylistMap])
     IN /\ uniqueTrackIds' = tables.uniqueTrackIds
        /\ artistMap' = tables.artistMap
        /\ trackPlaylistMap' = tables.trackPlaylistMap
  /\ artistIdsInPlaylist' = {}
  /\ trackIdsInPlaylist' = {}
  /\ response' = NoResponse
  /\ calls' = <<>>
  /\ failed' = FALSE
  /\ seen' = NothingSeen
  /\ UNCHANGED cookie
  /\ UNCHANGED << clientVars, libVars, authVars >>

ScanNext ==
  \/ GetAccessToken
  \/ FetchAllPlaylists
  \/ SkipPlaylist
  \/ FetchAllPlaylistTracks
  \/ NextItem
  \/ EndOfPlaylist
  \/ RespondWithoutArtists
  \/ EnrichAndRespond


(***************************************************************************)
(* The page component Home, part_000 lines 140-616.                        *)
(***************************************************************************)
\* const insightTotalPages = 5
insightTotalPages == 5

Min(a, b) == IF a < b THEN a ELSE b
Max(a, b) == IF a > b THEN a ELSE b

\* The snapshots the page may hold.  A field that may be missing (in a file
\* read back from disk) is an option: <<>> or <<value>>; rest tells whether the
\* three rankings and the artist table are there.
NoData == [present |-> FALSE, totals |-> <<>>, artists |-> <<>>, rest |-> FALSE]
Body(arts) ==
  [present |-> TRUE,
   totals |-> << [totalPlaylists |-> 1, totalArtists |-> Len(arts),
                  totalUniqueTracks |-> Len(arts)] >>,
   artists |-> << arts >>,
   rest |-> TRUE]

dA1 == [artistId |-> "A1", artistName |-> "Abba"]
dA2 == [artistId |-> "A2", artistName |-> "beck"]
dA3 == [artistId |-> "A3", artistName |-> "Cher"]

\* the bodies /api/spotify/artists may answer with
ScanBodies ==
  { Body(<<>>), Body(<<dA2, dA1>>), Body(<<dA3, dA2>>), Body(<<dA3, dA1, dA2>>) }

\* the messages a failed scan ends with: the error of a 401 body, the status
\* of an answer without a JSON body, the message of a rejected fetch
ScanErrors == { "not_authenticated", "HTTP 500", "Failed to fetch" }

\* localeCompare(b, undefined, {sensitivity: "base"}) on the names above:
\* letters compare without regard to case
BaseKey(name) ==
  CASE name = "Abba" -> 1
    [] name = "beck" -> 2
    [] name = "Cher" -> 3

\* Array.prototype.sort with that comparison: stable
RECURSIVE InsertByName(_, _)
InsertByName(a, sorted) ==
  IF sorted = <<>> THEN <<a>>
  ELSE IF BaseKey(a.artistName) < BaseKey(Head(sorted).artistName)
       THEN <<a>> \o sorted
       ELSE <<Head(sorted)>> \o InsertByName(a, Tail(sorted))
RECURSIVE SortByName(_)
SortByName(arr) ==
  IF arr = <<>> THEN <<>>
  ELSE InsertByName(arr[Len(arr)], SortByName(SubSeq(arr, 1, Len(arr) - 1)))

\* data?.artists ?? []
ArtistsOf(d) == IF d.present /\ d.artists # <<>> THEN d.artists[1] ELSE <<>>
\* const deckArtistsSorted = useMemo(...)
DeckArtistsSorted(d) == SortByName(ArtistsOf(d))

\* the effect "keep deckIndex sane when data changes": it runs when
\* deckArtistsSorted.length differs from the previous render's
ClampEffect(oldData, newData, idx) ==
  IF Len(ArtistsOf(oldData)) # Len(ArtistsOf(newData))
  THEN Min(idx, Len(ArtistsOf(newData)))
  ELSE idx

\* function pct1(x), applied wherever the page shows or prints a percentage
pct1(x) == Round1(x)

\* JSON values of a parsed progress file
Num(n) == [t |-> "number", v |-> n]
Str == [t |-> "string", v |-> 0]
Undefined == [t |-> "undefined", v |-> 0]

\* function safeNumber(n, fallback = 0)
safeNumber(n, fallback) == IF n.t = "number" THEN n.v ELSE fallback

NoDecisions == [a \in {} |-> TRUE]

\* the files the user may select: text that JSON.parse rejects, a well-formed
\* progress file, and files that differ from it in one field
GoodFile ==
  [parses |-> TRUE,
   version |-> Num(1),
   exportedAt |-> Str,
   data |-> Body(<<dA2, dA1>>),
   deckIndex |-> Num(1),
   decisions |-> << [a \in {"A1"} |-> TRUE] >>,
   insightPage |-> Num(2),
   mode |-> "deck"]

Files ==
  { GoodFile,
    [GoodFile EXCEPT !.parses = FALSE],
    [GoodFile EXCEPT !.version = Num(2)],
    [GoodFile EXCEPT !.version = Undefined],
    [GoodFile EXCEPT !.exportedAt = Undefined],
    [GoodFile EXCEPT !.data = NoData],
    [GoodFile EXCEPT !.data = [Body(<<dA1>>) EXCEPT !.totals = <<>>]],
    [GoodFile EXCEPT !.data = [Body(<<dA1>>) EXCEPT !.artists = <<>>]],
    [GoodFile EXCEPT !.data = [Body(<<dA2, dA1>>) EXCEPT !.rest = FALSE]],
    [GoodFile EXCEPT !.deckIndex = Undefined],
    \* a deckIndex that is no position of the file's deck of two
    [GoodFile EXCEPT !.deckIndex = Num(3)],
    [GoodFile EXCEPT !.deckIndex = Num(0 - 1)],
    [GoodFile EXCEPT !.decisions = <<>>],
    [GoodFile EXCEPT !.insightPage = Undefined, !.mode = Null] }

\* function isProgressFileV1(x)
isProgressFileV1(x) ==
  /\ x.version = Num(1)
  /\ x.exportedAt.t = "string"
  /\ x.data.present
  /\ x.data.totals # <<>>
  /\ x.data.artists # <<>>
  /\ x.deckIndex.t # "undefined"
  /\ x.decisions # <<>>

\* a catch block that leaves the mode alone
ModeKept(m) == m
\* the catch block of scanSpotify and of onResumeFileSelected: setMode("start")
ModeAfterFailure(m) == "start"

\* the part of the page's state that survives an operation
View ==
  [data |-> data, decisions |-> decisions, deckIndex |-> deckIndex,
   insightPage |-> insightPage, mode |-> mode, localStorage |-> localStorage]
NoView ==
  [data |-> NoData, decisions |-> NoDecisions, deckIndex |-> 0,
   insightPage |-> 0, mode |-> "start",
   localStorage |-> [snapshot |-> <<>>, decisions |-> <<>>, deckIndex |-> <<>>]]

\* the state after construction and the mount effects, localStorage empty
ClientFresh ==
  /\ data = NoData
  /\ loadingScan = FALSE
  /\ error = Null
  /\ mode = "start"
  /\ insightPage = 0
  /\ decisions = NoDecisions
  /\ deckIndex = 0
  /\ localStorage = [snapshot |-> <<>>, decisions |-> <<>>, deckIndex |-> <<>>]
  /\ last = "none"
  /\ before = NoView
  /\ download = <<>>
  /\ inFlight = 0

\* setLoadingScan(false) in the try block only
LoadingAfterScanOnSuccess(ok) == ~ok
\* finally { setLoadingScan(false) }, whether the scan settled well (ok) or not
LoadingAfterScan(ok) == FALSE

\* scanSpotify up to its await: both scan buttons are disabled while loadingScan
ScanStart ==
  /\ ~loadingScan
  /\ loadingScan' = TRUE
  /\ inFlight' = inFlight + 1
  /\ error' = Null
  /\ last' = "scanning"
  /\ before' = View
  /\ UNCHANGED << data, mode, insightPage, decisions, deckIndex, localStorage >>
  /\ download' = <<>>
  /\ UNCHANGED << scanVars, libVars, authVars >>

\* the scan answers 200 with body j
ScanSucceeds ==
  /\ inFlight > 0
  /\ \E j \in ScanBodies :
       LET clamped == Min(deckIndex, Len(ArtistsOf(j))) IN
       /\ data' = j
       /\ deckIndex' = ClampEffect(data, j, clamped)
       /\ localStorage' = [localStorage EXCEPT !.snapshot = <<j>>,
                                                !.deckIndex = <<deckIndex'>>]
  /\ mode' = "insights"
  /\ insightPage' = 0
  /\ loadingScan' = LoadingAfterScan(TRUE)
  /\ inFlight' = inFlight - 1
  /\ last' = "scanOk"
  /\ UNCHANGED << error, decisions, before >>
  /\ download' = <<>>
  /\ UNCHANGED << scanVars, libVars, authVars >>

\* the scan answers with a non-success status, or the fetch is rejected
ScanFails ==
  /\ inFlight > 0
  /\ \E msg \in ScanErrors : error' = msg
  /\ mode' = ModeAfterFailure(mode)
  /\ loadingScan' = LoadingAfterScan(FALSE)
  /\ inFlight' = inFlight - 1
  /\ last' = "scanFailed"
  /\ UNCHANGED << data, insightPage, decisions, deckIndex, localStorage, before >>
  /\ download' = <<>>
  /\ UNCHANGED << scanVars, libVars, authVars >>

\* onResumeFileSelected(file), the file rejected by JSON.parse or isProgressFileV1
ImportRejected ==
  /\ ~loadingScan
  /\ \E f \in Files :
       /\ ~f.parses \/ ~isProgressFileV1(f)
       /\ error' = IF f.parses THEN "Invalid progress file." ELSE "Unexpected token"
  /\ mode' = ModeAfterFailure(mode)
  /\ last' = "importRejected"
  /\ before' = View
  /\ UNCHANGED << data, loadingScan, insightPage, decisions, deckIndex, localStorage >>
  /\ download' = <<>>
  /\ UNCHANGED inFlight
  /\ UNCHANGED << scanVars, libVars, authVars >>

\* exportProgress: the object handed to downloadJson
ProgressFileNoPage(d, idx, dec, page, m) ==
  [parses |-> TRUE, version |-> Num(1), exportedAt |-> Str, data |-> d,
   deckIndex |-> Num(idx), decisions |-> <<dec>>, insightPage |-> Undefined,
   mode |-> IF m = "start" THEN "insights" ELSE m]
ProgressFile(d, idx, dec, page, m) ==
  [parses |-> TRUE, version |-> Num(1), exportedAt |-> Str, data |-> d,
   deckIndex |-> Num(idx), decisions |-> <<dec>>, insightPage |-> Num(page),
   mode |-> IF m = "start" THEN "insights" ELSE m]

\* exportProgress; the button is disabled while there is no snapshot
ExportProgress ==
  /\ ~loadingScan /\ data.present
  /\ download' = << ProgressFile(data, deckIndex, decisions, insightPage, mode) >>
  /\ last' = "exported"
  /\ before' = View
  /\ UNCHANGED << data, loadingScan, error, mode, insightPage, decisions,
                  deckIndex, localStorage >>
  /\ UNCHANGED inFlight
  /\ UNCHANGED << scanVars, libVars, authVars >>

\* onResumeFileSelected(file), the file accepted
ImportAccepted ==
  /\ ~loadingScan
  /\ \E f \in Files \cup { download[i] : i \in DOMAIN download } :
       /\ f.parses /\ isProgressFileV1(f)
       /\ download' = IF <<f>> = download THEN download ELSE <<>>
       /\ LET idx == safeNumber(f.deckIndex, 0) IN
          /\ data' = f.data
          /\ decisions' = f.decisions[1]
          /\ deckIndex' = ClampEffect(data, f.data, idx)
          /\ localStorage' = [snapshot |-> <<f.data>>,
                              decisions |-> <<f.decisions[1]>>,
                              deckIndex |-> <<deckIndex'>>]
          /\ insightPage' = safeNumber(f.insightPage, 0)
          /\ mode' = IF f.mode = "deck" THEN "deck" ELSE "insights"
  /\ error' = Null
  /\ last' = "importOk"
  /\ before' = View
  /\ UNCHANGED loadingScan
  /\ UNCHANGED inFlight
  /\ UNCHANGED << scanVars, libVars, authVars >>

\* markCurrent(value): saveDecision and advanceDeck, or nothing when the deck
\* has no artist at deckIndex
MarkCurrent ==
  /\ ~loadingScan /\ data.present /\ mode = "deck"
  /\ \E value \in BOOLEAN :
       LET deck == DeckArtistsSorted(data) IN
       IF deckIndex >= 0 /\ deckIndex < Len(deck)
       THEN LET cur == deck[deckIndex + 1]
                next == [a \in DOMAIN decisions \cup {cur.artistId} |->
                           IF a = cur.artistId THEN value ELSE decisions[a]]
            IN /\ decisions' = next
               /\ deckIndex' = deckIndex + 1
               /\ localStorage' = [localStorage EXCEPT !.decisions = <<next>>,
                                                        !.deckIndex = <<deckIndex + 1>>]
       ELSE UNCHANGED << decisions, deckIndex, localStorage >>
  /\ last' = "other"
  /\ before' = NoView
  /\ UNCHANGED << data, loadingScan, error, mode, insightPage >>
  /\ download' = <<>>
  /\ UNCHANGED inFlight
  /\ UNCHANGED << scanVars, libVars, authVars >>

\* undoDeck
UndoDeck ==
  /\ ~loadingScan /\ data.present /\ mode = "deck"
  /\ deckIndex' = Max(0, deckIndex - 1)
  /\ localStorage' = [localStorage EXCEPT !.deckIndex = <<deckIndex'>>]
  /\ last' = "other"
  /\ before' = NoView
  /\ UNCHANGED << data, loadingScan, error, mode, insightPage, decisions >>
  /\ download' = <<>>
  /\ UNCHANGED inFlight
  /\ UNCHANGED << scanVars, libVars, authVars >>

\* resetDeck
ResetDeck ==
  /\ ~loadingScan /\ data.present /\ mode = "deck"
  /\ decisions' = NoDecisions
  /\ deckIndex' = 0
  /\ localStorage' = [localStorage EXCEPT !.decisions = <<>>, !.deckIndex = <<>>]
  /\ last' = "other"
  /\ before' = NoView
  /\ UNCHANGED << data, loadingScan, error, mode, insightPage >>
  /\ download' = <<>>
  /\ UNCHANGED inFlight
  /\ UNCHANGED << scanVars, libVars, authVars >>

\* the buttons "Start swiping" and "Back to insights"
SetMode ==
  /\ ~loadingScan /\ data.present
  /\ \/ mode = "insights" /\ mode' = "deck"
     \/ mode = "deck" /\ deckIndex < Len(DeckArtistsSorted(data)) /\ mode' = "insights"
  /\ last' = "other"
  /\ before' = NoView
  /\ UNCHANGED << data, loadingScan, error, insightPage, decisions, deckIndex,
                  localStorage >>
  /\ download' = <<>>
  /\ UNCHANGED inFlight
  /\ UNCHANGED << scanVars, libVars, authVars >>

\* nextInsight, prevInsight and the page dots
SetInsightPage ==
  /\ ~loadingScan /\ data.present /\ mode = "insights"
  /\ \/ insightPage' = Min(insightTotalPages - 1, insightPage + 1)
     \/ insightPage' = Max(0, insightPage - 1)
     \/ \E i \in 0..(insightTotalPages - 1) : insightPage' = i
  /\ insightPage' # insightPage
  /\ last' = "other"
  /\ before' = NoView
  /\ UNCHANGED << data, loadingScan, error, mode, decisions, deckIndex, localStorage >>
  /\ download' = <<>>
  /\ UNCHANGED inFlight
  /\ UNCHANGED << scanVars, libVars, authVars >>

ClientNext ==
  \/ ScanStart
  \/ ScanSucceeds
  \/ ScanFails
  \/ ImportRejected
  \/ ImportAccepted
  \/ ExportProgress
  \/ MarkCurrent
  \/ UndoDeck
  \/ ResetDeck
  \/ SetMode
  \/ SetInsightPage

(***************************************************************************)
(* The ranking builder on its own: lines 155-231 of GET applied to tables  *)
(* of up to MaxRanked artists, more than a ranking holds.                  *)
(***************************************************************************)
\* What the scan found about one artist: the artist was credited on songCount
\* tracks, each track on no other artist and named after the artist, and
\* occurred in playlistCount playlists.
Findings ==
  { [name |-> n, songCount |-> c, playlistCount |-> 1] : n \in {"beck", "Cher"}, c \in {1, 2} }
  \cup { [name |-> "Cher", songCount |-> 1, playlistCount |-> 2] }

RankedId(i) == "R" \o ToString(i)

\* artistMap and trackPlaylistMap after the playlists that give these findings,
\* the artists first met in the order of found
ArtistMapOf(found) ==
  [i \in 1..Len(found) |->
     [key |-> RankedId(i), name |-> found[i].name, songCount |-> found[i].songCount,
      playlistCount |-> found[i].playlistCount, imageUrl |-> Null]]
RECURSIVE TrackMapOf(_, _)
TrackMapOf(found, i) ==
  IF i > Len(found) THEN <<>>
  ELSE [k \in 1..found[i].songCount |->
          [key |-> "T" \o ToString(i) \o "." \o ToString(k),
           name |-> found[i].name,
           mainArtistId |-> RankedId(i),
           mainArtistName |-> found[i].name,
           mainArtistImageUrl |-> Null,
           playlistCount |-> found[i].playlistCount]]
       \o TrackMapOf(found, i + 1)

\* the handler at line 155, its loop over the playlists done
RankInit ==
  /\ cookie = "token"
  /\ pc = "rank"
  /\ \E n \in 0..MaxRanked : \E found \in [1..n -> Findings] :
       /\ playlists = [i \in 1..(IF n = 0 THEN 0 ELSE MaxPlaylists) |-> Playlist(i, TRUE)]
       /\ artistMap = ArtistMapOf(found)
       /\ trackPlaylistMap = TrackMapOf(found, 1)
       /\ uniqueTrackIds = MapKeys(TrackMapOf(found, 1))
  /\ plIndex = Len(playlists)
  /\ itemCount = 0
  /\ artistIdsInPlaylist = {}
  /\ trackIdsInPlaylist = {}
  /\ response = NoResponse
  /\ calls = <<>>
  /\ failed = FALSE
  /\ seen = NothingSeen
  /\ run = 0
  /\ feed = NoFeed
  /\ first = NoResponse
  /\ ClientFresh
  /\ NoHelper
  /\ NoAuth

\* lines 155-231: the rankings are built and the snapshot is returned
Rank ==
  /\ pc = "rank"
  /\ response' = Snapshot(playlists, uniqueTrackIds, artistMap, trackPlaylistMap)
  /\ pc' = "done"
  /\ UNCHANGED << cookie, playlists, plIndex, itemCount, uniqueTrackIds, artistMap,
                  trackPlaylistMap, artistIdsInPlaylist, trackIdsInPlaylist,
                  calls, failed, seen, run, feed, first >>
  /\ UNCHANGED << clientVars, libVars, authVars >>

RankNext == Rank

(***************************************************************************)
(* The provider helpers of lib/spotify.ts, one call at a time.             *)
(***************************************************************************)
\* the 50 of i += 50 and ids.slice(i, i + 50)
BatchSize == 50

\* ids.slice(from, from + 51)
ChunkOneMore(a, from) == SubSeq(a, from + 1, Min(from + BatchSize + 1, Len(a)))
\* ids.slice(from, from + 50)
Chunk(a, from) == SubSeq(a, from + 1, Min(from + BatchSize, Len(a)))

\* the bodies /v1/artists?ids=... may answer a chunk with: an artist object for
\* every id, the objects without the first, or a body without the field artists
ArtistObjects(chunk) == [k \in 1..Len(chunk) |-> [id |-> chunk[k]]]
BatchAnswers(chunk) ==
  { [artists |-> << ArtistObjects(chunk) >>],
    [artists |-> << Tail(ArtistObjects(chunk)) >>],
    [artists |-> <<>>] }
\* j.artists ?? []
ArtistsOrNone(j) == IF j.artists = <<>> THEN <<>> ELSE j.artists[1]

\* fetchArtistsByIds(token, ids) is called; batchIds is ids
BatchInit ==
  /\ helper = "fetchArtistsByIds"
  /\ helperPc = "loop"
  /\ batchIds \in { [k \in 1..n |-> k] : n \in 0..MaxIds }
  /\ batchAt = 0
  /\ chain = <<>>
  /\ url = 0
  /\ out = <<>>
  /\ requests = <<>>
  /\ result = <<>>
  /\ cookie = "token"
  /\ run = 0
  /\ ScanFresh
  /\ ClientFresh
  /\ NoAuth

\* one iteration of for (let i = 0; i < ids.length; i += 50); batchAt is i
FetchBatch ==
  /\ helper = "fetchArtistsByIds"
  /\ helperPc = "loop"
  /\ batchAt < Len(batchIds)
  /\ LET chunk == Chunk(batchIds, batchAt) IN
     \/ \E j \in BatchAnswers(chunk) :
          /\ requests' = Append(requests, [chunk |-> chunk, ok |-> TRUE,
                                           artists |-> ArtistsOrNone(j)])
          /\ out' = out \o ArtistsOrNone(j)
          /\ batchAt' = batchAt + BatchSize
          /\ helperPc' = AfterFetch(TRUE, "loop")
     \/ /\ requests' = Append(requests, [chunk |-> chunk, ok |-> FALSE, artists |-> <<>>])
        /\ helperPc' = AfterFetch(FALSE, "loop")
        /\ UNCHANGED << out, batchAt >>
  /\ UNCHANGED << helper, batchIds, chain, url, result >>
  /\ UNCHANGED << scanVars, clientVars, authVars >>

\* i < ids.length is false: return out
ReturnBatch ==
  /\ helper = "fetchArtistsByIds"
  /\ helperPc = "loop"
  /\ ~(batchAt < Len(batchIds))
  /\ result' = << out >>
  /\ helperPc' = "returned"
  /\ UNCHANGED << helper, batchIds, batchAt, chain, url, out, requests >>
  /\ UNCHANGED << scanVars, clientVars, authVars >>

BatchNext ==
  \/ FetchBatch
  \/ ReturnBatch

\* The provider's listing: page k is what the k-th url answers, with its items
\* and its next link (0 is null). A next link may point at any page, also back.
Chains ==
  UNION { { [k \in 1..n |-> [items |-> IF tagged[k] THEN << k >> ELSE <<>>,
                             next |-> links[k]]] :
              tagged \in [1..n -> BOOLEAN], links \in [1..n -> 0..n] } :
          n \in 1..MaxPages }
\* a loop that never meets next = null is followed for this many pages
MaxFetches == MaxPages + 1

\* url = null after the first page
NextIsNull(page) == 0
\* url = page.next
NextOf(page) == page.next

\* fetchAllPlaylists(token) or fetchAllPlaylistTracks(token, playlistId) is called
PagesInit ==
  /\ helper \in {"fetchAllPlaylists", "fetchAllPlaylistTracks"}
  /\ helperPc = "loop"
  /\ chain \in Chains
  /\ url = 1
  /\ out = <<>>
  /\ requests = <<>>
  /\ result = <<>>
  /\ batchIds = <<>>
  /\ batchAt = 0
  /\ cookie = "token"
  /\ run = 0
  /\ ScanFresh
  /\ ClientFresh
  /\ NoAuth

\* one iteration of while (url): the page is fetched, its items pushed, its
\* next link followed; spotifyFetch throws on a non-success status
FetchPage ==
  /\ helper \in {"fetchAllPlaylists", "fetchAllPlaylistTracks"}
  /\ helperPc = "loop"
  /\ url # 0
  /\ Len(requests) < MaxFetches
  /\ \E ok \in BOOLEAN :
       /\ requests' = Append(requests, [url |-> url, ok |-> ok])
       /\ helperPc' = AfterFetch(ok, "loop")
       /\ IF ok
          THEN /\ out' = out \o chain[url].items
               /\ url' = NextOf(chain[url])
          ELSE UNCHANGED << out, url >>
  /\ UNCHANGED << helper, batchIds, batchAt, chain, result >>
  /\ UNCHANGED << scanVars, clientVars, authVars >>

\* url is null: return out
ReturnPages ==
  /\ helper \in {"fetchAllPlaylists", "fetchAllPlaylistTracks"}
  /\ helperPc = "loop"
  /\ url = 0
  /\ result' = << out >>
  /\ helperPc' = "returned"
  /\ UNCHANGED << helper, batchIds, batchAt, chain, url, out, requests >>
  /\ UNCHANGED << scanVars, clientVars, authVars >>

PagesNext ==
  \/ FetchPage
  \/ ReturnPages

(***************************************************************************)
(* The routes api/auth/login and api/auth/callback, and the browser that   *)
(* keeps their cookies in jar.  A cookie is an option: <<>> when the jar   *)
(* has none, <<[value, maxAge]>> otherwise.                                *)
(***************************************************************************)
\* what randomString(16) may return
States == {"s1", "s2"}
\* the query parameters a request to the callback may carry: none, an empty
\* one, or a value
Codes == {Null, "", "c1"}
StateParams == {Null, ""} \cup States
\* what the token endpoint may answer with
TokenAnswers ==
  { [access_token |-> "at1", expires_in |-> 3600, refresh_token |-> <<"rt1">>],
    [access_token |-> "at2", expires_in |-> 40, refresh_token |-> <<>>] }

\* !x of a string or null or undefined
Falsy(x) == x = Null \/ x = ""
\* req.cookies.get("spotify_auth_state")?.value
CookieValue(c) == IF c = <<>> THEN Null ELSE c[1].value

\* the test of line 51 without its comparison of the two states
RefusedUncompared(code, state, storedState) ==
  Falsy(code) \/ Falsy(state) \/ Falsy(storedState)
\* !code || !state || !storedState || state !== storedState
Refused(code, state, storedState) ==
  Falsy(code) \/ Falsy(state) \/ Falsy(storedState) \/ state # storedState

\* GET /api/auth/login: a fresh state, in the redirect and in the cookie
AuthLogin ==
  /\ \E state \in States :
       /\ jar' = [jar EXCEPT !.spotify_auth_state = << [value |-> state, maxAge |-> 10 * 60] >>]
       /\ authResponse' = << [route |-> "login", status |-> 307,
                              location |-> "https://accounts.spotify.com/authorize",
                              state |-> state, set |-> {"spotify_auth_state"}] >>
  /\ authRequest' = <<>>
  /\ UNCHANGED exchanges
  /\ UNCHANGED << scanVars, clientVars, libVars >>

\* the browser drops a cookie whose maxAge has passed
CookieExpires ==
  /\ \E name \in {"spotify_auth_state", "sp_access_token", "sp_refresh_token"} :
       /\ jar[name] # <<>>
       /\ jar' = [jar EXCEPT ![name] = <<>>]
  /\ UNCHANGED << authRequest, authResponse, exchanges >>
  /\ UNCHANGED << scanVars, clientVars, libVars >>

\* GET /api/auth/callback?code=...&state=..., sent with the jar's cookies
AuthCallback ==
  /\ Len(exchanges) < MaxExchanges
  /\ \E code \in Codes, state \in StateParams :
       LET storedState == CookieValue(jar.spotify_auth_state) IN
       /\ authRequest' = << [code |-> code, state |-> state, storedState |-> storedState] >>
       /\ IF Refused(code, state, storedState)
          THEN /\ authResponse' = << [route |-> "callback", status |-> 307,
                                      location |-> "/?error=auth_state",
                                      state |-> Null, set |-> {}] >>
               /\ UNCHANGED << jar, exchanges >>
          ELSE /\ exchanges' = Append(exchanges, code)
               /\ \/ \E tokens \in TokenAnswers :
                       /\ jar' =
                            [spotify_auth_state |-> <<>>,
                             sp_access_token |->
                               << [value |-> tokens.access_token,
                                   maxAge |-> Max(60, tokens.expires_in - 30)] >>,
                             sp_refresh_token |->
                               IF tokens.refresh_token # <<>>
                               THEN << [value |-> tokens.refresh_token[1],
                                        maxAge |-> 30 * 24 * 60 * 60] >>
                               ELSE jar.sp_refresh_token]
                       /\ authResponse' =
                            << [route |-> "callback", status |-> 307, location |-> "/",
                                state |-> Null,
                                set |-> {"sp_access_token"} \cup
                                        (IF tokens.refresh_token # <<>>
                                         THEN {"sp_refresh_token"} ELSE {})] >>
                  \/ /\ authResponse' = << [route |-> "callback", status |-> 500,
                                            location |-> Null, state |-> Null, set |-> {}] >>
                     /\ UNCHANGED jar
  /\ UNCHANGED << scanVars, clientVars, libVars >>

AuthInit ==
  /\ cookie = Null
  /\ run = 0
  /\ ScanFresh
  /\ ClientFresh
  /\ NoHelper
  /\ NoAuth

AuthNext ==
  \/ AuthLogin
  \/ CookieExpires
  \/ AuthCallback

(***************************************************************************)
(* The specifications.                                                     *)
(***************************************************************************)
\* one invocation of the scan handler, the request with or without the cookie
ScanInit ==
  /\ cookie \in {Null, "token"}
  /\ run = 0
  /\ ScanFresh
  /\ ClientFresh
  /\ NoHelper
  /\ NoAuth

SpecScan == ScanInit /\ [][ScanNext]_vars

\* the page, from its first render
ClientInit ==
  /\ cookie = Null
  /\ run = 0
  /\ ScanFresh
  /\ ClientFresh
  /\ NoHelper
  /\ NoAuth

SpecClient == ClientInit /\ [][ClientNext]_vars

\* the page used without progress files: scans and the deck
DeckNext ==
  \/ ScanStart
  \/ ScanSucceeds
  \/ ScanFails
  \/ MarkCurrent
  \/ UndoDeck
  \/ ResetDeck
  \/ SetMode
SpecDeck == ClientInit /\ [][DeckNext]_vars
\* the page when every request to /api/spotify/artists settles
SpecClientFair == SpecClient /\ WF_vars(ScanSucceeds \/ ScanFails)

\* the ranking builder, from the tables of a finished scan
SpecRank == RankInit /\ [][RankNext]_vars

\* two requests in a row, the provider answering the second as it did the first
TwoScansInit ==
  /\ cookie = "token"
  /\ run = 1
  /\ ScanFresh
  /\ ClientFresh
  /\ NoHelper
  /\ NoAuth
TwoScansNext ==
  \/ ScanNext
  \/ ScanAgain
SpecTwoScans == TwoScansInit /\ [][TwoScansNext]_vars

\* two requests in a row, the provider listing for the second what it listed
\* for the first, in another order
ReorderedInit ==
  /\ cookie = "token"
  /\ run = 3
  /\ ScanFresh
  /\ ClientFresh
  /\ NoHelper
  /\ NoAuth
ReorderedNext ==
  \/ ScanNext
  \/ ScanReordered
SpecReordered == ReorderedInit /\ [][ReorderedNext]_vars

\* the login and callback routes and one browser
SpecAuth == AuthInit /\ [][AuthNext]_vars

\* one call of fetchArtistsByIds
SpecBatch == BatchInit /\ [][BatchNext]_vars

\* one call of fetchAllPlaylists or fetchAllPlaylistTracks
SpecPages == PagesInit /\ [][PagesNext]_vars
\* the same call when every awaited response arrives and the loop goes on
SpecPagesFair == SpecPages /\ WF_vars(FetchPage) /\ WF_vars(ReturnPages)

(***************************************************************************)
(* Properties of the scan handler.                                         *)
(***************************************************************************)
Returned == pc = "done" /\ response.status = 200
Totals == response.body.totals
ArtistRows == { response.body.artistTable[i] : i \in 1..Len(response.body.artistTable) }
\* the track table the ranking of tracks is cut from
TrackRows == { trackPlaylistMap[i] : i \in 1..Len(trackPlaylistMap) }

\* what the provider delivered
TracksSeen == { x[2] : x \in seen.trackIn }
PlaylistsWithTrack(t) == { x[1] : x \in { y \in seen.trackIn : y[2] = t } }
PlaylistsWithArtist(a) == { x[1] : x \in { y \in seen.artistIn : y[2] = a } }
TracksCrediting(a) == { x[1] : x \in { y \in seen.credit : y[2] = a } }

\* C1: in every snapshot, totals.totalUniqueTracks is the number of distinct
\* track identifiers that occurred in items of type "track" over all playlists;
\* items without a track identifier, without a payload or of another type count
\* for nothing.
C1_TotalUniqueTracks ==
  Returned => Totals.totalUniqueTracks = Cardinality(TracksSeen)

\* a snapshot of two playlists that share a track, after an item that is no
\* identified track was delivered too
C1_Witness ==
  /\ Returned
  /\ seen.other
  /\ Totals.totalUniqueTracks = 2
  /\ \E t \in TrackIds : Cardinality(PlaylistsWithTrack(t)) = 2

\* C2: in every snapshot, the track table holds exactly the tracks delivered,
\* and each track's playlistCount is the number of distinct playlists in which
\* the track occurred, however often it occurred in one of them.
C2_TrackPlaylistCount ==
  Returned =>
    /\ { r.key : r \in TrackRows } = TracksSeen
    /\ \A r \in TrackRows : r.playlistCount = Cardinality(PlaylistsWithTrack(r.key))

\* the first playlist has just ended; both its items were the same track,
\* which is counted present once
C2_Witness ==
  /\ pc = "loop" /\ plIndex = 1 /\ itemCount = 2
  /\ ~seen.other
  /\ Cardinality(TracksSeen) = 1
  /\ \A i \in 1..Len(trackPlaylistMap) : trackPlaylistMap[i].playlistCount = 1

\* C3: in every snapshot, each artist's playlistCount is the number of distinct
\* playlists holding at least one track that credits the artist, whether the
\* artist is credited there on several tracks or several times on one track.
C3_ArtistPlaylistCount ==
  Returned =>
    \A r \in ArtistRows : r.playlistCount = Cardinality(PlaylistsWithArtist(r.artistId))

\* a snapshot of one playlist whose two tracks both credit A1, and A1 was
\* counted present once
C3_Witness ==
  /\ Returned
  /\ Len(playlists) = 1
  /\ {<<"T1", "A1">>, <<"T2", "A1">>} \subseteq seen.credit
  /\ \E r \in ArtistRows : r.artistId = "A1" /\ r.playlistCount = 1

\* C4: in every snapshot, songCount(artist) <= totalUniqueTracks for every artist.
C4_SongCountBounded ==
  Returned => \A r \in ArtistRows : r.songCount <= Totals.totalUniqueTracks

\* C5: playlistCount(artist) <= totalPlaylists, in every state of the scan and in
\* the snapshot, totalPlaylists being the length of the provider's playlist list
\* (the playlists without an id included).
C5_PlaylistCountBounded ==
  /\ \A i \in 1..Len(artistMap) : artistMap[i].playlistCount <= TotalPlaylists(playlists)
  /\ Returned =>
       /\ Totals.totalPlaylists = Len(playlists)
       /\ \A r \in ArtistRows : r.playlistCount <= Totals.totalPlaylists

\* a snapshot of two playlists, one of them without an id and skipped, and an
\* artist present in the other
C5_Witness ==
  /\ Returned
  /\ Totals.totalPlaylists = 2
  /\ \E i \in 1..2 : playlists[i].id = Null
  /\ \E r \in ArtistRows : r.playlistCount = 1

\* C6: in every snapshot, each artist's songCount is the number of distinct
\* track identifiers on which the artist is credited.
C6_SongCountIsTracksCredited ==
  Returned => \A r \in ArtistRows : r.songCount = Cardinality(TracksCrediting(r.artistId))

\* C7: once a provider fetch has returned a non-success status, the handler
\* returns no snapshot: it ends by the throw, and its response is never a 200.
C7_NoPartialSnapshot ==
  failed => /\ response.status # 200
            /\ pc = "thrown"

\* the track fetch of the second playlist failed after the first playlist had
\* been aggregated
C7_Witness ==
  /\ failed
  /\ pc = "thrown"
  /\ plIndex = 1
  /\ Len(artistMap) > 0
  /\ calls[Len(calls)].fn = "fetchAllPlaylistTracks"

\* C9: when getAccessToken returns no token, the handler answers 401 with the
\* error not_authenticated, and its only provider call is the one call of
\* getAccessToken.
C9_NoTokenNoScan ==
  (cookie = Null /\ pc # "start") =>
    /\ pc = "done"
    /\ response.status = 401
    /\ response.body.error = "not_authenticated"
    /\ calls = << Call("getAccessToken", <<>>) >>

C9_Witness == cookie = Null /\ pc = "done" /\ response.status = 401

(***************************************************************************)
(* Properties of the page.                                                 *)
(***************************************************************************)
\* C8, as claimed: after a failed scan, data, decisions, deckIndex, insightPage
\* and mode are what they were when the scan started.
C8_FailedScanRestoresState ==
  last = "scanFailed" =>
    /\ data = before.data
    /\ decisions = before.decisions
    /\ deckIndex = before.deckIndex
    /\ insightPage = before.insightPage
    /\ mode = before.mode

\* C8, amended: after a failed scan, data, decisions, deckIndex and insightPage
\* are what they were when the scan started, and the page shows the start
\* screen with the error, whatever the mode was; loadingScan is false again.
C8_FailedScanKeepsDataShowsStart ==
  last = "scanFailed" =>
    /\ data = before.data
    /\ decisions = before.decisions
    /\ deckIndex = before.deckIndex
    /\ insightPage = before.insightPage
    /\ mode = "start"
    /\ error \in ScanErrors
    /\ ~loadingScan

\* a rescan started from the deck, with decisions taken, has failed
C8_Witness ==
  /\ last = "scanFailed"
  /\ before.mode = "deck"
  /\ data.present
  /\ deckIndex > 0
  /\ decisions # NoDecisions

\* C10, as claimed: after a rejected import, data, decisions, deckIndex,
\* insightPage and mode, and the three localStorage entries, are what they were
\* before it.
C10_RejectedImportLeavesState ==
  last = "importRejected" =>
    /\ data = before.data
    /\ decisions = before.decisions
    /\ deckIndex = before.deckIndex
    /\ insightPage = before.insightPage
    /\ mode = before.mode
    /\ localStorage = before.localStorage

\* C10, amended: after a rejected import, data, decisions, deckIndex and
\* insightPage, and the three localStorage entries, are what they were before
\* it, and the page shows the start screen with the error, whatever the mode
\* was.
C10_RejectedImportKeepsDataShowsStart ==
  last = "importRejected" =>
    /\ data = before.data
    /\ decisions = before.decisions
    /\ deckIndex = before.deckIndex
    /\ insightPage = before.insightPage
    /\ localStorage = before.localStorage
    /\ mode = "start"
    /\ error \in {"Invalid progress file.", "Unexpected token"}

\* a file was rejected by isProgressFileV1 while the page showed insights page 3
\* of a snapshot with decisions stored
C10_Witness ==
  /\ last = "importRejected"
  /\ error = "Invalid progress file."
  /\ before.mode = "insights"
  /\ insightPage = 3
  /\ data.present
  /\ localStorage.decisions # <<>>

(***************************************************************************)
(* Properties of progress files.                                           *)
(***************************************************************************)
\* C11: a progress file is accepted only when its version tag is 1 and it has
\* every field of the snapshot (totals, the three rankings, the artist table,
\* artists) and of the envelope (exportedAt, deckIndex, decisions); after an
\* accepted import the page therefore holds a snapshot with all six fields.
C11_AcceptedFileIsComplete ==
  last = "importOk" =>
    data.present /\ data.totals # <<>> /\ data.artists # <<>> /\ data.rest

(***************************************************************************)
(* Properties of the deck.                                                 *)
(***************************************************************************)
\* C25: after any sequence of scans (answered or failed), imports,
\* markCurrent, undoDeck and resetDeck, deckIndex is at least 0 and at most the
\* number of artists in the deck; and markCurrent with deckIndex at the end of
\* the deck records no decision and does not advance.
C25_DeckIndexInRange ==
  /\ [](deckIndex >= 0 /\ deckIndex <= Len(DeckArtistsSorted(data)))
  /\ [][(MarkCurrent /\ deckIndex = Len(DeckArtistsSorted(data)))
          => UNCHANGED << decisions, deckIndex >>]_vars

\* deckStats.remaining: total - (seen + notSeen)
Remaining ==
  LET deck == DeckArtistsSorted(data)
  IN Len(deck) - Cardinality({ k \in 1..Len(deck) : deck[k].artistId \in DOMAIN decisions })
\* const deckDone = deckIndex >= deckArtistsSorted.length
deckDone == deckIndex >= Len(DeckArtistsSorted(data))

\* C26: from the empty page, after any sequence of scans (a rescan may return
\* other artists), markCurrent, undoDeck and resetDeck, every artist before
\* deckIndex in the alphabetical deck has a decision; so when the deck is done
\* no artist of the deck is undecided.
C26_ArtistsBeforeIndexDecided ==
  /\ \A k \in 1..Min(deckIndex, Len(DeckArtistsSorted(data))) :
       DeckArtistsSorted(data)[k].artistId \in DOMAIN decisions
  /\ deckDone => Remaining = 0

\* the page has just read back the file it saved
ReadBackOwnFile == last = "importOk" /\ download # <<>>

\* C12: exportProgress followed by onResumeFileSelected on the saved file
\* gives back the snapshot that was exported, field for field, and the
\* decisions, deckIndex and insightPage the page held when it exported.
C12_ExportImportRoundTrip ==
  ReadBackOwnFile =>
    /\ data = before.data
    /\ decisions = before.decisions
    /\ deckIndex = before.deckIndex
    /\ insightPage = before.insightPage
    /\ data = download[1].data
    /\ <<decisions>> = download[1].decisions
    /\ Num(deckIndex) = download[1].deckIndex
    /\ Num(insightPage) = download[1].insightPage
C12_Witness ==
  /\ ReadBackOwnFile
  /\ download[1] \notin Files
  /\ Len(ArtistsOf(data)) = 3
  /\ deckIndex = 2
  /\ insightPage = 3
  /\ DOMAIN decisions = {"A1", "A2"}

(***************************************************************************)
(* Properties of the rankings and percentages.                             *)
(***************************************************************************)
Json == response.body

RECURSIVE SumValues(_)
SumValues(rows) == IF rows = <<>> THEN 0 ELSE Head(rows).value + SumValues(Tail(rows))

\* the largest number of entries in the artists list of one track
MaxCredits ==
  LET lens == { Len(it.track[1].artists) : it \in { x \in Items : x.track # <<>> } }
  IN CHOOSE n \in lens : \A k \in lens : k <= n

SongShare(e) == [num |-> e.value * 100, den |-> Totals.totalUniqueTracks]
TopSongs == { Json.topArtistsBySongs[i] : i \in 1..Len(Json.topArtistsBySongs) }

\* C14 as stated: the percent of every entry of topArtistsBySongs is
\* songCount / totalUniqueTracks * 100 rounded to one decimal, so the snapshot
\* holds the very number the display layer shows.
C14_SnapshotPercentIsRounded ==
  Returned =>
    \A e \in TopSongs :
      /\ SameNumber(e.percent, Round1(SongShare(e)))
      /\ SameNumber(e.percent, pct1(e.percent))

\* C14, amended: the percent of every entry of topArtistsBySongs is the
\* quotient songCount / totalUniqueTracks * 100 itself, not rounded; the
\* display layer rounds it with pct1, and what it shows is that quotient
\* rounded to one decimal.
C14_SnapshotPercentIsExact ==
  Returned =>
    \A e \in TopSongs :
      /\ Totals.totalUniqueTracks > 0
      /\ SameNumber(e.percent, SongShare(e))
      /\ SameNumber(pct1(e.percent), Round1(SongShare(e)))
C14_Witness ==
  /\ Returned
  /\ Totals.totalUniqueTracks = 3
  /\ \E e \in TopSongs :
       /\ e.value = 1
       /\ ~SameNumber(e.percent, pct1(e.percent))
       /\ pct1(e.percent) = [num |-> 333, den |-> 10]

\* the position of a name in ascending order when case is disregarded
CaseInsensitiveRank(name) ==
  CASE name \in {"Abba"} -> 1
    [] name \in {"beck"} -> 2
    [] name \in {"Cher"} -> 3

\* view is the top of table: entries are compared by count, then by name
InOrder(a, b) ==
  \/ a.count > b.count
  \/ a.count = b.count /\ CaseInsensitiveRank(a.name) <= CaseInsensitiveRank(b.name)
IsTopOf(view, table) ==
  /\ Len(view) = Min(5, Len(table))
  /\ \A i, j \in 1..Len(view) : i # j => view[i].id # view[j].id
  /\ \A i \in 1..Len(view) : \E k \in 1..Len(table) : table[k] = view[i]
  /\ \A i, j \in 1..Len(view) : i < j => InOrder(view[i], view[j])
  /\ \A k \in 1..Len(table) :
       (\A i \in 1..Len(view) : view[i].id # table[k].id) =>
         \A i \in 1..Len(view) : InOrder(view[i], table[k])

\* the three rankings of the snapshot and the tables they are cut from, each
\* entry reduced to its identifier, its name and the count it is ranked by
BySongsView ==
  [i \in 1..Len(Json.topArtistsBySongs) |->
     [id |-> Json.topArtistsBySongs[i].artistId,
      name |-> Json.topArtistsBySongs[i].artistName,
      count |-> Json.topArtistsBySongs[i].value]]
ByPlaylistsView ==
  [i \in 1..Len(Json.topArtistsByPlaylists) |->
     [id |-> Json.topArtistsByPlaylists[i].artistId,
      name |-> Json.topArtistsByPlaylists[i].artistName,
      count |-> Json.topArtistsByPlaylists[i].value]]
TracksView ==
  [i \in 1..Len(Json.topTracksByPlaylists) |->
     [id |-> Json.topTracksByPlaylists[i].trackId,
      name |-> Json.topTracksByPlaylists[i].trackName,
      count |-> Json.topTracksByPlaylists[i].playlistCount]]
BySongsTable ==
  [i \in 1..Len(artistMap) |->
     [id |-> artistMap[i].key, name |-> artistMap[i].name,
      count |-> artistMap[i].songCount]]
ByPlaylistsTable ==
  [i \in 1..Len(artistMap) |->
     [id |-> artistMap[i].key, name |-> artistMap[i].name,
      count |-> artistMap[i].playlistCount]]
TracksTable ==
  [i \in 1..Len(trackPlaylistMap) |->
     [id |-> trackPlaylistMap[i].key, name |-> trackPlaylistMap[i].name,
      count |-> trackPlaylistMap[i].playlistCount]]

\* C15: each of topArtistsBySongs, topArtistsByPlaylists and
\* topTracksByPlaylists has min(5, n) entries, n the number of artists (of
\* tracks); they are the first entries of the whole collection sorted by the
\* ranking's count, largest first, equal counts by name in ascending order
\* without regard to case; no entry left out has a larger count than one kept.
C15_TopFiveViews ==
  Returned =>
    /\ IsTopOf(BySongsView, BySongsTable)
    /\ IsTopOf(ByPlaylistsView, ByPlaylistsTable)
    /\ IsTopOf(TracksView, TracksTable)
C15_Witness ==
  /\ Returned
  /\ Len(artistMap) = 6
  /\ Len(trackPlaylistMap) = 7
  /\ Len(Json.topArtistsBySongs) = 5
  /\ Len(Json.topTracksByPlaylists) = 5
  /\ artistMap[6].songCount = 2 /\ artistMap[6].name = "beck"
  /\ artistMap[5].songCount = 1 /\ artistMap[5].playlistCount = 2
  /\ artistMap[1].name = "Cher" /\ artistMap[2].name = "beck"
  /\ Json.topArtistsBySongs[1].artistId = RankedId(6)
  /\ Json.topArtistsByPlaylists[1].artistId = RankedId(5)

Zero == [num |-> 0, den |-> 1]

\* C16: a scan that finds no playlist answers with totals 0, 0, 0 and with
\* topArtistsBySongs, topArtistsByPlaylists, topTracksByPlaylists, artistTable
\* and artists all empty; and pct(x, denom) is 0 whenever denom is 0, whatever
\* the count x.
C16_EmptyScan ==
  /\ (Returned /\ playlists = <<>>) =>
       /\ Totals = [totalPlaylists |-> 0, totalArtists |-> 0, totalUniqueTracks |-> 0]
       /\ Json.topArtistsBySongs = <<>>
       /\ Json.topArtistsByPlaylists = <<>>
       /\ Json.topTracksByPlaylists = <<>>
       /\ Json.artistTable = <<>>
       /\ Json.artists = <<>>
  /\ \A x \in 0..(MaxPlaylists * MaxItems) :
       pct(x, 0).den > 0 /\ SameNumber(pct(x, 0), Zero)
C16_Witness ==
  /\ Returned
  /\ playlists = <<>>
  /\ Len(calls) = 2
  /\ calls[2].fn = "fetchAllPlaylists"

(***************************************************************************)
(* Further properties of the scan handler.                                 *)
(***************************************************************************)
\* the loop over items takes an item that is no identified track
TakesUnidentifiedItem ==
  pc = "items" /\ itemCount' = itemCount + 1 /\ seen'.lastItem # "track"

\* C17: an item without a payload, of a type other than "track" or without a
\* track identifier changes nothing: the set of unique tracks, the artist
\* table (also for artists credited on such items only) and the track table
\* are after the item what they were before it.
C17_UnidentifiedItemChangesNothing ==
  [][TakesUnidentifiedItem =>
       UNCHANGED << uniqueTrackIds, artistMap, trackPlaylistMap,
                    artistIdsInPlaylist, trackIdsInPlaylist >>]_vars
C17_Witness ==
  /\ pc = "items"
  /\ itemCount = 2
  /\ seen.lastItem = "other"
  /\ uniqueTrackIds = {"T1"}
  /\ MapKeys(artistMap) = {"A1"}

\* the image the provider returned for artist id: the first of its images, or
\* none when the artist or its images were not returned
Resolved(id) ==
  IF id \in DOMAIN seen.meta /\ seen.meta[id] = "image" THEN "img:" \o id ELSE Null
TopTracks == { Json.topTracksByPlaylists[i] : i \in 1..Len(Json.topTracksByPlaylists) }

\* C18: in the snapshot every artist's imageUrl is the first image URL the
\* provider returned for that artist id, or null when it returned no metadata
\* or no image for it; and every track with a main artist id carries as
\* mainArtistImageUrl the image resolved for that id, null if none was.
C18_ImagesResolved ==
  Returned =>
    /\ \A r \in ArtistRows : r.imageUrl = Resolved(r.artistId)
    /\ \A i \in 1..Len(Json.artists) :
         Json.artists[i].imageUrl = Resolved(Json.artists[i].artistId)
    /\ \A e \in TopSongs : e.imageUrl = Resolved(e.artistId)
    /\ \A t \in TopTracks :
         t.mainArtistId # Null => t.mainArtistImageUrl = Resolved(t.mainArtistId)
C18_Witness ==
  /\ Returned
  /\ seen.meta = [a \in {"A1", "A2"} |-> IF a = "A1" THEN "image" ELSE "noImage"]
  /\ \E t \in TopTracks : t.mainArtistId = "A1" /\ t.mainArtistImageUrl = "img:A1"
  /\ \E t \in TopTracks : t.mainArtistId = "A2" /\ t.mainArtistImageUrl = Null
  /\ \E r \in ArtistRows : r.artistId = "A1" /\ r.imageUrl = "img:A1"

\* the calls of fetchAllPlaylistTracks the first k playlists ask for: one for
\* each playlist that has an id, in the order of the list
RECURSIVE TrackFetches(_)
TrackFetches(k) ==
  IF k = 0 THEN <<>>
  ELSE TrackFetches(k - 1) \o
       (IF playlists[k].id # Null
        THEN << Call("fetchAllPlaylistTracks", <<playlists[k].id>>) >> ELSE <<>>)
Opening == << Call("getAccessToken", <<>>), Call("fetchAllPlaylists", <<>>) >>
\* the presence counts of the first k playlists have been added
CountedUpTo(k) ==
  /\ \A i \in 1..Len(artistMap) :
       artistMap[i].playlistCount =
         Cardinality({ p \in PlaylistsWithArtist(artistMap[i].key) : p <= k })
  /\ \A i \in 1..Len(trackPlaylistMap) :
       trackPlaylistMap[i].playlistCount =
         Cardinality({ p \in PlaylistsWithTrack(trackPlaylistMap[i].key) : p <= k })

\* C20: in one scan getAccessToken is called once, before anything else; then
\* fetchAllPlaylists once; then fetchAllPlaylistTracks once for every playlist
\* that has an id, in list order, each call only after the end-of-playlist
\* increments of the playlists before it; last fetchArtistsByIds, at most once,
\* after all playlists, with every artist id collected, and only if there is
\* one.
C20_CallOrder ==
  /\ pc = "start" => calls = <<>>
  /\ pc = "fetchPlaylists" => calls = SubSeq(Opening, 1, 1)
  /\ response.status = 401 => calls = SubSeq(Opening, 1, 1)
  /\ pc = "loop" => calls = Opening \o TrackFetches(plIndex) /\ CountedUpTo(plIndex)
  /\ pc = "items" =>
       /\ calls = Opening \o TrackFetches(plIndex + 1)
       /\ playlists[plIndex + 1].id # Null
       /\ CountedUpTo(plIndex)
  /\ Returned =>
       /\ CountedUpTo(Len(playlists))
       /\ IF artistMap = <<>>
          THEN calls = Opening \o TrackFetches(Len(playlists))
          ELSE /\ Len(calls) = Len(Opening \o TrackFetches(Len(playlists))) + 1
               /\ SubSeq(calls, 1, Len(calls) - 1) = Opening \o TrackFetches(Len(playlists))
               /\ calls[Len(calls)].fn = "fetchArtistsByIds"
               /\ Len(calls[Len(calls)].arg) = Len(artistMap)
               /\ { calls[Len(calls)].arg[i] : i \in 1..Len(artistMap) } = MapKeys(artistMap)
  /\ \A i \in 2..Len(calls) : calls[i].fn # "getAccessToken"
  /\ \A i \in 1..Len(calls) : calls[i].fn = "fetchArtistsByIds" => i = Len(calls)
C20_Witness ==
  /\ Returned
  /\ Len(playlists) = 2
  /\ playlists[1].id = Null
  /\ playlists[2].id = PlaylistId(2)
  /\ Len(calls) = 4
  /\ calls[3] = Call("fetchAllPlaylistTracks", <<PlaylistId(2)>>)
  /\ calls[4].fn = "fetchArtistsByIds"
  /\ Len(calls[4].arg) = 2

\* C19: GET keeps nothing from one call to the next: a second scan that the
\* provider answers exactly as it answered the first returns the snapshot the
\* first returned.
C19_SecondScanSameSnapshot ==
  (run = 2 /\ Returned) => response = first
C19_Witness ==
  /\ run = 2
  /\ Returned
  /\ first.status = 200
  /\ Len(playlists) = 2
  /\ Len(feed.items[1]) = 2
  /\ Len(feed.items[2]) = 1
  /\ Totals.totalUniqueTracks = 2
  /\ Totals.totalArtists = 2
  /\ \E r \in ArtistRows : r.playlistCount = 2

\* the artists and tracks that occurred in a playlist processed to its end
ArtistsBefore == { x[2] : x \in { y \in seen.artistIn : y[1] <= plIndex } }
TracksBefore == { x[2] : x \in { y \in seen.trackIn : y[1] <= plIndex } }

\* C24: at every point of the scan, an entry of the artist table that was there
\* before the current playlist began has playlistCount >= 1 (only an entry made
\* in the current playlist has 0, until the playlist ends), the same for the
\* track table; and in the snapshot every artist and every track has
\* playlistCount >= 1.
C24_PlaylistCountAtLeastOne ==
  /\ pc \in {"loop", "items", "done"} =>
       /\ \A k \in 1..Len(artistMap) :
            (pc # "items" \/ artistMap[k].key \in ArtistsBefore)
              => artistMap[k].playlistCount >= 1
       /\ \A k \in 1..Len(trackPlaylistMap) :
            (pc # "items" \/ trackPlaylistMap[k].key \in TracksBefore)
              => trackPlaylistMap[k].playlistCount >= 1
       /\ pc = "items" => MapKeys(artistMap) \subseteq ArtistsBefore \cup artistIdsInPlaylist
  /\ Returned =>
       /\ \A r \in ArtistRows : r.playlistCount >= 1
       /\ \A k \in 1..Len(Json.topArtistsByPlaylists) :
            Json.topArtistsByPlaylists[k].value >= 1
       /\ \A k \in 1..Len(Json.topTracksByPlaylists) :
            Json.topTracksByPlaylists[k].playlistCount >= 1
\* reached: in the second playlist, an artist of the first and one met only now
C24_Witness ==
  /\ pc = "items"
  /\ plIndex = 1
  /\ \E k \in 1..Len(artistMap) :
       artistMap[k].key \in ArtistsBefore /\ artistMap[k].key \in artistIdsInPlaylist
       /\ artistMap[k].playlistCount = 1
  /\ \E k \in 1..Len(artistMap) :
       artistMap[k].key \notin ArtistsBefore /\ artistMap[k].playlistCount = 0
       /\ artistMap[k].songCount = 0

\* the counts of a snapshot
ArtistCounts(body) ==
  { [artistId |-> body.artistTable[k].artistId,
     songCount |-> body.artistTable[k].songCount,
     playlistCount |-> body.artistTable[k].playlistCount] : k \in 1..Len(body.artistTable) }
TrackCounts(body) ==
  { [trackId |-> body.topTracksByPlaylists[k].trackId,
     playlistCount |-> body.topTracksByPlaylists[k].playlistCount] :
      k \in 1..Len(body.topTracksByPlaylists) }
\* the items the provider listed, of all playlists
Listed(f) == UNION { { f.items[k][j] : j \in 1..Len(f.items[k]) } : k \in 1..Len(f.items) }
\* every occurrence of a track identifier carries the same artist list
SameCredits(f) ==
  \A x \in Listed(f), y \in Listed(f) :
    x.track[1].id = y.track[1].id => x.track[1].artists = y.track[1].artists

\* C23: when every occurrence of a track identifier carries the same artist
\* list, the totals, every artist's songCount and playlistCount and every
\* track's playlistCount of the snapshot are the same after two neighbouring
\* playlists, or two neighbouring items of a playlist, change places; every
\* other order of the playlists and of the items is reached by a chain of such
\* exchanges, none of which changes which artist lists a track identifier has.
C23_CountsIgnoreOrder ==
  (run = 2 /\ Returned /\ SameCredits(feed)) =>
    /\ Json.totals = first.body.totals
    /\ ArtistCounts(Json) = ArtistCounts(first.body)
    /\ TrackCounts(Json) = TrackCounts(first.body)
\* reached: T2 of artists A1 and A2 and T1 of A1, in two playlists, scanned in
\* both orders of the playlists
C23_Witness ==
  /\ run = 2
  /\ Returned
  /\ SameCredits(feed)
  /\ Len(feed.playlists) = 2
  /\ feed.playlists[1].id = "2"
  /\ Len(feed.items[1]) = 1
  /\ Len(feed.items[2]) = 2
  /\ feed.items[2][1] # feed.items[2][2]
  /\ \E r \in ArtistCounts(Json) : r.songCount = 2 /\ r.playlistCount = 2
  /\ \E r \in TrackCounts(Json) : r.playlistCount = 2
\* reached: an identifier listed with two artist lists, and the counts differ
C23_OtherwiseOrderMatters ==
  /\ run = 2
  /\ Returned
  /\ ~SameCredits(feed)
  /\ ArtistCounts(Json) # ArtistCounts(first.body)

(***************************************************************************)
(* Properties of the provider helpers.                                     *)
(***************************************************************************)
RECURSIVE ChunksOf(_)
ChunksOf(reqs) == IF reqs = <<>> THEN <<>> ELSE Head(reqs).chunk \o ChunksOf(Tail(reqs))
RECURSIVE AnswersOf(_)
AnswersOf(reqs) == IF reqs = <<>> THEN <<>> ELSE Head(reqs).artists \o AnswersOf(Tail(reqs))

\* C21: fetchArtistsByIds(token, ids) sends ceil(len(ids) / 50) requests of at
\* most 50 ids each; every id of ids goes out in exactly one request, in the
\* order of ids; what it returns is the batch results one after the other in
\* request order; and when a batch answers with a non-success status the call
\* throws and returns nothing.
C21_Batches ==
  /\ \A k \in 1..Len(requests) :
       Len(requests[k].chunk) >= 1 /\ Len(requests[k].chunk) <= 50
  /\ Len(ChunksOf(requests)) <= Len(batchIds)
  /\ ChunksOf(requests) = SubSeq(batchIds, 1, Len(ChunksOf(requests)))
  /\ helperPc = "returned" =>
       /\ Len(requests) * 50 >= Len(batchIds)
       /\ (Len(requests) - 1) * 50 < Len(batchIds) \/ Len(batchIds) = 0
       /\ ChunksOf(requests) = batchIds
       /\ \A k \in 1..Len(requests) : requests[k].ok
       /\ result = << AnswersOf(requests) >>
  /\ (\E k \in 1..Len(requests) : ~requests[k].ok) =>
       helperPc = "thrown" /\ result = <<>>
  /\ helperPc = "thrown" => result = <<>>
C21_Witness ==
  /\ helper = "fetchArtistsByIds"
  /\ helperPc = "returned"
  /\ Len(batchIds) = 101
  /\ Len(requests) = 3
  /\ requests[3].chunk = << 101 >>
  /\ requests[2].artists = <<>>
  /\ Len(result[1]) = 50 + 0 + 1
C21_ThrowWitness ==
  /\ helperPc = "thrown"
  /\ Len(requests) = 2
  /\ out # <<>>

\* the pages met from page u on by following next, at most fuel of them
RECURSIVE Walk(_, _, _)
Walk(c, u, fuel) ==
  IF u = 0 \/ fuel = 0 THEN <<>> ELSE << u >> \o Walk(c, c[u].next, fuel - 1)
\* the listing ends: following next from the first page meets next = null
ChainEnds ==
  /\ chain # <<>>
  /\ LET path == Walk(chain, 1, Len(chain)) IN chain[path[Len(path)]].next = 0
RECURSIVE ItemsOf(_, _)
ItemsOf(c, path) ==
  IF path = <<>> THEN <<>> ELSE c[Head(path)].items \o ItemsOf(c, Tail(path))
PagesSafe ==
  /\ \A k \in 1..Len(requests) :
       requests[k].url = IF k = 1 THEN 1 ELSE chain[requests[k - 1].url].next
  /\ helperPc = "returned" =>
       /\ ChainEnds
       /\ \A k \in 1..Len(requests) : requests[k].ok
       /\ [k \in 1..Len(requests) |-> requests[k].url] = Walk(chain, 1, Len(chain))
       /\ result = << ItemsOf(chain, Walk(chain, 1, Len(chain))) >>
  /\ (\E k \in 1..Len(requests) : ~requests[k].ok) <=> helperPc = "thrown"
  /\ helperPc = "thrown" => result = <<>>
  /\ helperPc = "loop" => result = <<>>

\* C22: fetchAllPlaylists and fetchAllPlaylistTracks fetch the first page and
\* then the page each next link names, until a page has next = null; they
\* return the items of all these pages in page order. When the listing ends
\* and no page fails the call returns, with the items of every page; a page
\* that fails makes the call throw, and nothing is returned.
C22_PagesFollowed ==
  /\ []PagesSafe
  /\ (helperPc = "loop" /\ ChainEnds) ~> (helperPc \in {"returned", "thrown"})
C22_Witness ==
  /\ helper = "fetchAllPlaylistTracks"
  /\ helperPc = "returned"
  /\ Len(requests) = 3
  /\ chain[1].next = 3
  /\ result = << << 1, 3, 2 >> >>

(***************************************************************************)
(* Properties of the scan button.                                          *)
(***************************************************************************)
\* C28: loadingScan is true exactly while a request to /api/spotify/artists is
\* in flight: scanSpotify sets it when it starts, every scan, however it
\* settles, sets it back to false, and since both scan buttons are disabled
\* while it is true at most one scan is in flight.
C28_LoadingWhileInFlight ==
  /\ [](loadingScan <=> inFlight > 0)
  /\ [](inFlight <= 1)
  /\ [][ScanStart => loadingScan']_vars
  /\ [][(ScanSucceeds \/ ScanFails) => ~loadingScan']_vars
  /\ loadingScan ~> ~loadingScan
\* reached: a rescan in flight after a scan that failed and one that succeeded
C28_Witness ==
  /\ loadingScan
  /\ inFlight = 1
  /\ data.present
  /\ before.mode = "start"
  /\ error = Null
  /\ last = "scanning"

(***************************************************************************)
(* Properties of the auth routes.                                          *)
(***************************************************************************)
\* the request carries code and state, and state is the value of the cookie
\* spotify_auth_state
Matching(rq) ==
  /\ rq.code # Null
  /\ rq.state # Null
  /\ rq.storedState # Null
  /\ rq.state = rq.storedState

\* C27: the callback sets sp_access_token only for a request that carries code
\* and state with state equal to the cookie spotify_auth_state, which only the
\* login route sets; a request without code, without state, without the cookie
\* or with another state is redirected to /?error=auth_state, no code is sent
\* to the token endpoint and no cookie is set.
C27_TokenOnlyForMatchingState ==
  [][AuthCallback =>
       /\ "sp_access_token" \in authResponse'[1].set => Matching(authRequest'[1])
       /\ jar'.sp_access_token # jar.sp_access_token => Matching(authRequest'[1])
       /\ authRequest'[1].storedState # Null =>
            /\ authRequest'[1].storedState \in States
            /\ jar.spotify_auth_state # <<>>
       /\ ~Matching(authRequest'[1]) =>
            /\ authResponse'[1].status = 307
            /\ authResponse'[1].location = "/?error=auth_state"
            /\ authResponse'[1].set = {}
            /\ exchanges' = exchanges
            /\ jar' = jar]_vars
\* reached: the token set by a matching callback, the second code exchanged
C27_Witness ==
  /\ authRequest # <<>>
  /\ Matching(authRequest[1])
  /\ authResponse[1].route = "callback"
  /\ "sp_access_token" \in authResponse[1].set
  /\ jar.sp_access_token # <<>>
  /\ jar.sp_access_token[1].maxAge = 60
  /\ jar.spotify_auth_state = <<>>
  /\ exchanges = << "c1", "c1" >>

====
